---- MODULE Spec2Model ----
(***************************************************************************)
(* A model of the go-ycsb raft benchmark client:                           *)
(*   - the trace replay workload (traceWorkload.DoTransaction),            *)
(*   - the open-loop put driver (putbench.runPut) over the unary binding,  *)
(*   - the streaming binding's per-thread lifecycle (InitThread, the drain *)
(*     goroutine, Update, CleanupThread),                                  *)
(*   - the dial of the streaming and of the unary binding,                 *)
(*   - the load phase (traceWorkload.DoInsert) and parseTraceFile,         *)
(*   - runPut's key generation and raftDB.Read.                            *)
(* Each component has its own specification; the variables of the other    *)
(* components stay at their initial values.                                *)
(***************************************************************************)
EXTENDS Integers, Sequences, FiniteSets, TLC

VARIABLES
    \* ---- trace workload (traceWorkload) ----
    records,      \* w.records: the loaded trace
    loopReplay,   \* w.loopReplay
    readMode,     \* w.readMode
    writeValueSize, \* w.writeValueSize
    recordIdx,    \* w.recordIdx: the shared atomic cursor
    tpc,          \* per thread: position inside DoTransaction
    tidx,         \* per thread: the local idx of the running call
    claims,       \* history: the values AddInt64(...)-1 returned, in order
    replayed,     \* history: the indices used in w.records[idx], in order
    lastRet,      \* per thread: what the last finished call did and returned
    \* ---- runPut ----
    parallel,     \* --parallel
    totalOps,     \* --total
    ppc,          \* position of runPut's main goroutine
    nCreated,     \* loop counter of the client creation loop
    conn,         \* per client: state of its connection
    closeCnt,     \* per client: number of Close calls on its connection
    reqCh,        \* buffered channel contents
    chClosed,     \* close(reqCh) happened
    enqueued,     \* loop counter of the producer loop
    wpc,          \* per worker goroutine: position
    itemSt,       \* per work item: where it is
    itemW,        \* per work item: worker that received it
    sendCnt,      \* per work item: number of db.Update calls issued for it
    \* ---- streaming binding (threadStream) ----
    spc,          \* per thread: position of the benchmark thread
    sconn,        \* per thread: ts.conn
    sstream,      \* per thread: ts.stream
    cancelled,    \* per thread: ts.cancel called
    drain,        \* per thread: the drain goroutine
    recvCount,    \* per thread: recvCount
    sent,         \* per thread: successful stream.Send calls
    acksInFlight, \* per thread: responses emitted by the backend, not yet received
    cleanupPos,   \* per thread: number of CleanupThread statements executed
    cleanupLog,   \* per thread: history of the CleanupThread statements executed
    fatal,        \* log.Fatalf was called: the process is gone
    runCancelled, \* the run's context, parent of every tctx, was cancelled
    users,        \* per stream: the threads that have sent on it
    sendCalls,    \* history: the number of stream.Send calls made so far
    \* ---- connection establishment (grpc.Dial / grpc.DialContext) ----
    dialBinding,  \* the binding whose dial is running
    dialSt,       \* per worker: state of its dial
    dialElapsed,  \* per worker: time units since its dial started
    backendUp,    \* the backend accepts connections
    \* ---- load phase (traceWorkload.DoInsert) ----
    uniqueKeys,   \* w.uniqueKeys
    valueSizes,   \* w.valueSizes
    loadIdx,      \* w.loadIdx: the shared atomic cursor of the load phase
    lpc,          \* per thread: position inside DoInsert
    lidx,         \* per thread: the local idx of the running call
    inserted,     \* history: the db.Insert calls issued, in order
    \* ---- parseTraceFile ----
    lines,        \* the lines of the trace file
    maxRecords,   \* the record cap
    fieldsPerRecord, \* csvReader.FieldsPerRecord
    lineNum,      \* number of lines read so far
    parsed,       \* the local slice records
    accepted,     \* history: the line numbers of the appended records
    parseDone,    \* parseTraceFile has returned
    \* ---- traceWorkloadCreator.Create ----
    traceFile,    \* the trace.file property
    readModeProp, \* the trace.readmode property
    cpc,          \* position inside Create
    created,      \* what Create returned
    \* ---- runPut: key generation ----
    keySpace,     \* --key-space-size
    keySize,      \* --key-size
    keyBuf,       \* the scratch buffer keyBuf
    itemKeys,     \* per submitted work item: its key
    ids,          \* history: the ids drawn by rand.Int63n
    \* ---- raftDB.Read ----
    store,        \* the backend's keys
    readRet       \* per thread: what the last Read returned

traceVars == <<records, loopReplay, readMode, writeValueSize, recordIdx, tpc, tidx, claims, replayed, lastRet>>
putVars == <<parallel, totalOps, ppc, nCreated, conn, closeCnt, reqCh, chClosed, enqueued,
             wpc, itemSt, itemW, sendCnt>>
streamVars == <<spc, sconn, sstream, cancelled, drain, recvCount, sent, acksInFlight,
                cleanupPos, cleanupLog, fatal, runCancelled, users, sendCalls>>
dialVars == <<dialBinding, dialSt, dialElapsed, backendUp>>
loadVars == <<uniqueKeys, valueSizes, loadIdx, lpc, lidx, inserted>>
parseVars == <<lines, maxRecords, fieldsPerRecord, lineNum, parsed, accepted, parseDone>>
keyVars == <<keySpace, keySize, keyBuf, itemKeys, ids>>
readVars == <<store, readRet>>
createVars == <<traceFile, readModeProp, cpc, created>>
vars == <<traceVars, putVars, streamVars, dialVars, loadVars, parseVars, keyVars, readVars,
         createVars>>

\* Create has not returned: no error and no workload yet (a nil workload is
\* the empty sequence, a created one a sequence of one record).
NotCreated == [err |-> "pending", w |-> <<>>]

\* ---------------------------------------------------------------- bounds
NumThreads == 2
MaxRecords == 2
MaxCalls == 4
MaxParallel == 2
MaxTotalOps == 3
NumStreamThreads == 2
MaxSends == 2
MaxTicks == 3
MaxLines == 3
MaxKeySize == 9

Threads == 1..NumThreads
StreamThreads == 1..NumStreamThreads

\* ------------------------------------------------- trace workload: data
DefaultValueSize == 100
PlaceholderSize == 1
TraceWriteValueSizeDefault == 1

ReadModes == {"read", "skip", "write"}

SampleRecords ==
    { [key |-> "a", valueSize |-> 1, operation |-> "set"],
      [key |-> "a", valueSize |-> 0, operation |-> "get"] }

TraceInputs == UNION { [1..n -> SampleRecords] : n \in 1..MaxRecords }

numRecords == Len(records)

DbCall(op, key, len) == [op |-> op, key |-> key, len |-> len]

ValueSizeOfNegativeOnly(rec) == IF rec.valueSize < 0 THEN DefaultValueSize ELSE rec.valueSize

ValueSizeOf(rec) == IF rec.valueSize <= 0 THEN DefaultValueSize ELSE rec.valueSize

\* case "get", "gets": the read mode decides between nothing, a write of
\* w.writeValueSize bytes and a read.
GetCallsAlwaysRead(rec, readOk, writeOk) ==
    [calls |-> <<DbCall("Read", rec.key, 0)>>,
     err |-> IF readOk THEN "nil" ELSE "readErr"]

GetCalls(rec, readOk, writeOk) ==
    CASE readMode = "skip" -> [calls |-> <<>>, err |-> "nil"]
      [] readMode = "write" ->
           [calls |-> <<DbCall("Update", rec.key, writeValueSize)>>,
            err |-> IF writeOk THEN "nil" ELSE "writeErr"]
      [] OTHER -> [calls |-> <<DbCall("Read", rec.key, 0)>>,
                   err |-> IF readOk THEN "nil" ELSE "readErr"]

\* case "set", "add", "replace", "cas": db.Insert for add, db.Update otherwise.
SetCalls(rec, writeOk) ==
    [calls |-> <<DbCall(IF rec.operation = "add" THEN "Insert" ELSE "Update",
                        rec.key, ValueSizeOf(rec))>>,
     err |-> IF writeOk THEN "nil" ELSE "writeErr"]

\* case "delete": return db.Delete(ctx, w.table, record.key)
DeleteCallsAsEmptyUpdate(rec, writeOk) ==
    [calls |-> <<DbCall("Update", rec.key, 0)>>,
     err |-> IF writeOk THEN "nil" ELSE "writeErr"]

DeleteCalls(rec, writeOk) ==
    [calls |-> <<DbCall("Delete", rec.key, 0)>>,
     err |-> IF writeOk THEN "nil" ELSE "writeErr"]

\* case "append", "prepend": treated as an update
AppendCalls(rec, writeOk) ==
    [calls |-> <<DbCall("Update", rec.key, ValueSizeOf(rec))>>,
     err |-> IF writeOk THEN "nil" ELSE "writeErr"]

\* case "incr", "decr": db.Read, return its error if any, then db.Update of
\* the placeholder value "1".
IncrCallsUpdateAfterFailedRead(rec, readOk, writeOk) ==
    [calls |-> <<DbCall("Read", rec.key, 0), DbCall("Update", rec.key, PlaceholderSize)>>,
     err |-> IF ~readOk THEN "readErr" ELSE IF writeOk THEN "nil" ELSE "writeErr"]

IncrCalls(rec, readOk, writeOk) ==
    IF readOk
    THEN [calls |-> <<DbCall("Read", rec.key, 0), DbCall("Update", rec.key, PlaceholderSize)>>,
          err |-> IF writeOk THEN "nil" ELSE "writeErr"]
    ELSE [calls |-> <<DbCall("Read", rec.key, 0)>>, err |-> "readErr"]

\* The switch of DoTransaction: the db calls issued for a record and the
\* error returned, given whether the backend's read and write succeed.
Dispatch(rec, readOk, writeOk) ==
    CASE rec.operation \in {"get", "gets"} -> GetCalls(rec, readOk, writeOk)
      [] rec.operation \in {"set", "add", "replace", "cas"} -> SetCalls(rec, writeOk)
      [] rec.operation = "delete" -> DeleteCalls(rec, writeOk)
      [] rec.operation \in {"append", "prepend"} -> AppendCalls(rec, writeOk)
      [] rec.operation \in {"incr", "decr"} -> IncrCalls(rec, readOk, writeOk)
      [] OTHER -> [calls |-> <<>>, err |-> "nil"]

NoRet == [idx |-> -1, calls |-> <<>>, err |-> "nil"]

\* A call's outcome when w.records[idx] is indexed out of range.
PanicRet(idx) == [idx |-> idx, calls |-> <<>>, err |-> "panic"]

\* ------------------------------------------- trace workload: operations
\* idx := atomic.AddInt64(&w.recordIdx, 1) - 1
FetchAddNoMinusOne(t) ==
    /\ tidx' = [tidx EXCEPT ![t] = recordIdx + 1]
    /\ recordIdx' = recordIdx + 1

FetchAdd(t) ==
    /\ tidx' = [tidx EXCEPT ![t] = recordIdx]
    /\ recordIdx' = recordIdx + 1

\* if idx >= w.numRecords
ExhaustedOffByOne(idx) == idx > numRecords

Exhausted(idx) == idx >= numRecords

Claim(t) ==
    /\ tpc[t] = "idle"
    /\ Len(claims) < MaxCalls
    /\ FetchAdd(t)
    /\ claims' = Append(claims, tidx'[t])
    /\ tpc' = [tpc EXCEPT ![t] = "claimed"]
    /\ UNCHANGED <<records, loopReplay, readMode, writeValueSize, replayed, lastRet>>
    /\ UNCHANGED <<putVars, streamVars, dialVars, loadVars, parseVars, keyVars, readVars, createVars>>

\* The index a claim of raw value idx ends up reading: 0 after a wrap.
WrappedIdx(idx) == IF Exhausted(idx) /\ loopReplay THEN 0 ELSE idx

WrapNoStore(t) ==
    /\ tpc[t] = "claimed"
    /\ Exhausted(tidx[t])
    /\ loopReplay
    /\ tidx' = [tidx EXCEPT ![t] = 0]
    /\ tpc' = [tpc EXCEPT ![t] = "wrapped"]
    /\ UNCHANGED <<records, loopReplay, readMode, writeValueSize, recordIdx, claims, replayed, lastRet>>
    /\ UNCHANGED <<putVars, streamVars, dialVars, loadVars, parseVars, keyVars, readVars, createVars>>

\* A wrap that resets the shared cursor but keeps the call's own index.
WrapKeepsIdx(t) ==
    /\ tpc[t] = "claimed"
    /\ Exhausted(tidx[t])
    /\ loopReplay
    /\ recordIdx' = 1
    /\ tpc' = [tpc EXCEPT ![t] = "wrapped"]
    /\ UNCHANGED <<records, loopReplay, readMode, writeValueSize, tidx, claims, replayed, lastRet>>
    /\ UNCHANGED <<putVars, streamVars, dialVars, loadVars, parseVars, keyVars, readVars, createVars>>

\* loopReplay: atomic.StoreInt64(&w.recordIdx, 1); idx = 0
Wrap(t) ==
    /\ tpc[t] = "claimed"
    /\ Exhausted(tidx[t])
    /\ loopReplay
    /\ recordIdx' = 1
    /\ tidx' = [tidx EXCEPT ![t] = 0]
    /\ tpc' = [tpc EXCEPT ![t] = "wrapped"]
    /\ UNCHANGED <<records, loopReplay, readMode, writeValueSize, claims, replayed, lastRet>>
    /\ UNCHANGED <<putVars, streamVars, dialVars, loadVars, parseVars, keyVars, readVars, createVars>>

\* !loopReplay: return nil
ReturnExhausted(t) ==
    /\ tpc[t] = "claimed"
    /\ Exhausted(tidx[t])
    /\ ~loopReplay
    /\ lastRet' = [lastRet EXCEPT ![t] = [idx |-> tidx[t], calls |-> <<>>, err |-> "nil"]]
    /\ tpc' = [tpc EXCEPT ![t] = "idle"]
    /\ UNCHANGED <<records, loopReplay, readMode, writeValueSize, recordIdx, tidx, claims, replayed>>
    /\ UNCHANGED <<putVars, streamVars, dialVars, loadVars, parseVars, keyVars, readVars, createVars>>

\* record := w.records[idx]; switch record.operation { ... }
Replay(t) ==
    /\ \/ tpc[t] = "wrapped"
       \/ tpc[t] = "claimed" /\ ~Exhausted(tidx[t])
    /\ replayed' = Append(replayed, tidx[t])
    /\ \E readOk \in BOOLEAN, writeOk \in BOOLEAN :
         lastRet' = [lastRet EXCEPT ![t] =
            IF tidx[t] \in 0..(numRecords - 1)
            THEN [idx |-> tidx[t]] @@ Dispatch(records[tidx[t] + 1], readOk, writeOk)
            ELSE PanicRet(tidx[t])]
    /\ tpc' = [tpc EXCEPT ![t] = "idle"]
    /\ UNCHANGED <<records, loopReplay, readMode, writeValueSize, recordIdx, tidx, claims>>
    /\ UNCHANGED <<putVars, streamVars, dialVars, loadVars, parseVars, keyVars, readVars, createVars>>

\* The state after traceWorkloadCreator.Create; runPut and the streaming
\* binding are not running.
TraceInit ==
    /\ records \in TraceInputs
    /\ loopReplay \in BOOLEAN
    /\ readMode \in ReadModes
    /\ writeValueSize = TraceWriteValueSizeDefault
    /\ recordIdx = 0
    /\ tpc = [t \in Threads |-> "idle"]
    /\ tidx = [t \in Threads |-> 0]
    /\ claims = <<>>
    /\ replayed = <<>>
    /\ lastRet = [t \in Threads |-> NoRet]
    /\ parallel = 0
    /\ totalOps = 0
    /\ ppc = "off"
    /\ nCreated = 0
    /\ conn = <<>>
    /\ closeCnt = <<>>
    /\ reqCh = <<>>
    /\ chClosed = FALSE
    /\ enqueued = 0
    /\ wpc = <<>>
    /\ itemSt = <<>>
    /\ itemW = <<>>
    /\ sendCnt = <<>>
    /\ spc = [t \in StreamThreads |-> "off"]
    /\ sconn = [t \in StreamThreads |-> "none"]
    /\ sstream = [t \in StreamThreads |-> "none"]
    /\ cancelled = [t \in StreamThreads |-> FALSE]
    /\ drain = [t \in StreamThreads |-> "none"]
    /\ recvCount = [t \in StreamThreads |-> 0]
    /\ sent = [t \in StreamThreads |-> 0]
    /\ acksInFlight = [t \in StreamThreads |-> 0]
    /\ cleanupPos = [t \in StreamThreads |-> 0]
    /\ cleanupLog = [t \in StreamThreads |-> <<>>]
    /\ fatal = FALSE
    /\ runCancelled = FALSE
    /\ users = [t \in StreamThreads |-> {}]
    /\ sendCalls = 0
    /\ dialBinding = "unary"
    /\ dialSt = [t \in StreamThreads |-> "off"]
    /\ dialElapsed = [t \in StreamThreads |-> 0]
    /\ backendUp = TRUE
    /\ uniqueKeys = <<>>
    /\ valueSizes = <<>>
    /\ loadIdx = 0
    /\ lpc = [t \in Threads |-> "off"]
    /\ lidx = [t \in Threads |-> 0]
    /\ inserted = <<>>
    /\ lines = <<>>
    /\ maxRecords = 0
    /\ fieldsPerRecord = 0
    /\ lineNum = 0
    /\ parsed = <<>>
    /\ accepted = <<>>
    /\ parseDone = TRUE
    /\ keySpace = 0
    /\ keySize = 0
    /\ keyBuf = <<>>
    /\ itemKeys = <<>>
    /\ ids = <<>>
    /\ store = {}
    /\ readRet = <<>>
    /\ traceFile = ""
    /\ readModeProp = "read"
    /\ cpc = "off"
    /\ created = NotCreated

\* Any thread may take the next step of its DoTransaction call.
TraceNext ==
    \E t \in Threads :
        \/ Claim(t)
        \/ Wrap(t)
        \/ ReturnExhausted(t)
        \/ Replay(t)

SpecTrace == TraceInit /\ [][TraceNext]_vars

\* ------------------------------------- trace workload: the dispatch alone
\* Every operation string the switch names, and one it does not.
Operations ==
    {"get", "gets", "set", "add", "replace", "cas", "delete", "append", "prepend",
     "incr", "decr", "touch"}

SampleValueSizes == {-1, 0, 2}

WriteValueSizes == {TraceWriteValueSizeDefault, 3}

DispatchInputs ==
    { <<[key |-> "a", valueSize |-> v, operation |-> o]>> :
          v \in SampleValueSizes, o \in Operations }
    \cup { <<[key |-> "a", valueSize |-> 2, operation |-> "set"],
             [key |-> "a", valueSize |-> 0, operation |-> "get"]>> }

\* The state after traceWorkloadCreator.Create for a trace of any operation,
\* read mode and write size.
DispatchInit ==
    /\ records \in DispatchInputs
    /\ loopReplay \in BOOLEAN
    /\ readMode \in ReadModes
    /\ writeValueSize \in WriteValueSizes
    /\ recordIdx = 0
    /\ tpc = [t \in Threads |-> "idle"]
    /\ tidx = [t \in Threads |-> 0]
    /\ claims = <<>>
    /\ replayed = <<>>
    /\ lastRet = [t \in Threads |-> NoRet]
    /\ parallel = 0
    /\ totalOps = 0
    /\ ppc = "off"
    /\ nCreated = 0
    /\ conn = <<>>
    /\ closeCnt = <<>>
    /\ reqCh = <<>>
    /\ chClosed = FALSE
    /\ enqueued = 0
    /\ wpc = <<>>
    /\ itemSt = <<>>
    /\ itemW = <<>>
    /\ sendCnt = <<>>
    /\ spc = [t \in StreamThreads |-> "off"]
    /\ sconn = [t \in StreamThreads |-> "none"]
    /\ sstream = [t \in StreamThreads |-> "none"]
    /\ cancelled = [t \in StreamThreads |-> FALSE]
    /\ drain = [t \in StreamThreads |-> "none"]
    /\ recvCount = [t \in StreamThreads |-> 0]
    /\ sent = [t \in StreamThreads |-> 0]
    /\ acksInFlight = [t \in StreamThreads |-> 0]
    /\ cleanupPos = [t \in StreamThreads |-> 0]
    /\ cleanupLog = [t \in StreamThreads |-> <<>>]
    /\ fatal = FALSE
    /\ runCancelled = FALSE
    /\ users = [t \in StreamThreads |-> {}]
    /\ sendCalls = 0
    /\ dialBinding = "unary"
    /\ dialSt = [t \in StreamThreads |-> "off"]
    /\ dialElapsed = [t \in StreamThreads |-> 0]
    /\ backendUp = TRUE
    /\ uniqueKeys = <<>>
    /\ valueSizes = <<>>
    /\ loadIdx = 0
    /\ lpc = [t \in Threads |-> "off"]
    /\ lidx = [t \in Threads |-> 0]
    /\ inserted = <<>>
    /\ lines = <<>>
    /\ maxRecords = 0
    /\ fieldsPerRecord = 0
    /\ lineNum = 0
    /\ parsed = <<>>
    /\ accepted = <<>>
    /\ parseDone = TRUE
    /\ keySpace = 0
    /\ keySize = 0
    /\ keyBuf = <<>>
    /\ itemKeys = <<>>
    /\ ids = <<>>
    /\ store = {}
    /\ readRet = <<>>
    /\ traceFile = ""
    /\ readModeProp = "read"
    /\ cpc = "off"
    /\ created = NotCreated

\* One thread replays the trace call by call.
DispatchNext ==
    \/ Claim(1)
    \/ Wrap(1)
    \/ ReturnExhausted(1)
    \/ Replay(1)

SpecDispatch == DispatchInit /\ [][DispatchNext]_vars

\* ------------------------------------------------ trace dispatch: claims
\* The record a finished call replayed; defined when Replayed(t) holds.
Replayed(t) == lastRet[t].idx \in 0..(numRecords - 1) /\ lastRet[t].err # "panic"

RecOf(t) == records[lastRet[t].idx + 1]

\* C17: a call that replayed a get or gets record issued nothing in skip
\* mode, exactly one Update of the record's key with a value of
\* writeValueSize bytes and no Read in write mode, and exactly one Read of the
\* key and no write in read mode.
C17_GetFollowsReadMode ==
    \A t \in Threads :
        (Replayed(t) /\ RecOf(t).operation \in {"get", "gets"}) =>
            LET c == lastRet[t].calls
            IN  /\ readMode = "skip" => c = <<>>
                /\ readMode = "write" =>
                      /\ Len(c) = 1
                      /\ c[1].op = "Update"
                      /\ c[1].key = RecOf(t).key
                      /\ c[1].len = writeValueSize
                /\ readMode = "read" =>
                      /\ Len(c) = 1
                      /\ c[1].op = "Read"
                      /\ c[1].key = RecOf(t).key

\* [set a, get a] in write mode: the get was replayed as a write to a.
C17_Witness ==
    /\ Len(records) = 2
    /\ readMode = "write"
    /\ writeValueSize = 3
    /\ lastRet[1].idx = 1
    /\ lastRet[1].calls = <<DbCall("Update", "a", 3)>>

\* C18: a call that replayed a set, add, replace or cas record issued exactly
\* one write of the record's key, Insert for add and Update otherwise, whose
\* value is valueSize bytes long, or 100 bytes when valueSize <= 0.
C18_SetWritesOnce ==
    \A t \in Threads :
        (Replayed(t) /\ RecOf(t).operation \in {"set", "add", "replace", "cas"}) =>
            LET c == lastRet[t].calls
            IN  /\ Len(c) = 1
                /\ c[1].op = IF RecOf(t).operation = "add" THEN "Insert" ELSE "Update"
                /\ c[1].key = RecOf(t).key
                /\ c[1].len = IF RecOf(t).valueSize <= 0 THEN 100 ELSE RecOf(t).valueSize

C18_Witness ==
    /\ Replayed(1)
    /\ RecOf(1).operation = "add"
    /\ RecOf(1).valueSize = 0
    /\ lastRet[1].calls = <<DbCall("Insert", "a", 100)>>

\* C19: a call that replayed an incr or decr record first issued a Read of
\* the key; when the Read failed its error was returned and nothing else was
\* issued, otherwise one Update of the key with the placeholder followed.
C19_IncrReadsThenUpdates ==
    \A t \in Threads :
        (Replayed(t) /\ RecOf(t).operation \in {"incr", "decr"}) =>
            LET c == lastRet[t].calls
            IN  /\ Len(c) \in {1, 2}
                /\ c[1].op = "Read"
                /\ c[1].key = RecOf(t).key
                /\ Len(c) = 1 <=> lastRet[t].err = "readErr"
                /\ Len(c) = 2 =>
                      /\ c[2].op = "Update"
                      /\ c[2].key = RecOf(t).key
                      /\ c[2].len = PlaceholderSize

C19_Witness ==
    /\ lastRet[1].idx = 0
    /\ RecOf(1).operation = "incr"
    /\ lastRet[1].err = "readErr"
    /\ Len(lastRet[1].calls) = 1

\* C20: a call that replayed a delete record issued exactly one Delete of the
\* key, one that replayed an append or prepend record exactly one Update of
\* the key, and one that replayed any other operation outside the switch
\* issued nothing and returned no error.
C20_DeleteAppendOther ==
    \A t \in Threads :
        Replayed(t) =>
            LET c == lastRet[t].calls
                o == RecOf(t).operation
            IN  /\ o = "delete" =>
                      Len(c) = 1 /\ c[1].op = "Delete" /\ c[1].key = RecOf(t).key
                /\ o \in {"append", "prepend"} =>
                      Len(c) = 1 /\ c[1].op = "Update" /\ c[1].key = RecOf(t).key
                /\ o \notin {"get", "gets", "set", "add", "replace", "cas", "delete",
                             "append", "prepend", "incr", "decr"} =>
                      c = <<>> /\ lastRet[t].err = "nil"

C20_Witness ==
    /\ lastRet[1].idx = 0
    /\ RecOf(1).operation = "touch"
    /\ lastRet[1].calls = <<>>
    /\ loopReplay
    /\ Len(replayed) = 2

\* ================================================================ runPut
\* runPut drives the unary binding: raftCreator.Create dials one connection
\* per client and raftDB.Close closes it.
Clients == 1..parallel
Items == 1..totalOps

\* reqCh := make(chan workItem, parallel)
QueueCap == parallel

\* A send on the buffered channel proceeds iff the buffer has room.
CanSendWhenNoneInFlight(ch) ==
    /\ Len(ch) < QueueCap
    /\ \A i \in Items : itemSt[i] # "inflight"

CanSend(ch) == Len(ch) < QueueCap

\* `for it := range reqCh` ends when the channel is closed and drained.
RangeDoneWhenEmpty(ch, closed) == ch = <<>>

RangeDone(ch, closed) == closed /\ ch = <<>>

\* The process is alive: neither os.Exit(1) nor the return of runPut (after
\* which main returns) has happened.
Alive == ppc \notin {"returned", "exited"}

\* clients[i] = dbi; defer dbi.Close()
CreateOk ==
    /\ ppc = "create"
    /\ nCreated < parallel
    /\ nCreated' = nCreated + 1
    /\ conn' = [conn EXCEPT ![nCreated + 1] = "open"]
    /\ UNCHANGED <<parallel, totalOps, ppc, closeCnt, reqCh, chClosed, enqueued,
                   wpc, itemSt, itemW, sendCnt>>
    /\ UNCHANGED <<traceVars, streamVars, dialVars, loadVars, parseVars, keyVars, readVars, createVars>>

\* err != nil: os.Exit(1); the deferred Close calls do not run
CreateFail ==
    /\ ppc = "create"
    /\ nCreated < parallel
    /\ ppc' = "exited"
    /\ UNCHANGED <<parallel, totalOps, nCreated, conn, closeCnt, reqCh, chClosed, enqueued,
                   wpc, itemSt, itemW, sendCnt>>
    /\ UNCHANGED <<traceVars, streamVars, dialVars, loadVars, parseVars, keyVars, readVars, createVars>>

\* make(chan workItem, parallel); go func(db ycsb.DB) {...}(clients[i])
StartWorkers ==
    /\ ppc = "create"
    /\ nCreated = parallel
    /\ wpc' = [w \in Clients |-> "loop"]
    /\ ppc' = "produce"
    /\ UNCHANGED <<parallel, totalOps, nCreated, conn, closeCnt, reqCh, chClosed, enqueued,
                   itemSt, itemW, sendCnt>>
    /\ UNCHANGED <<traceVars, streamVars, dialVars, loadVars, parseVars, keyVars, readVars, createVars>>

\* reqCh <- workItem{key: key, val: value}
Enqueue ==
    /\ ppc = "produce"
    /\ enqueued < totalOps
    /\ CanSend(reqCh)
    /\ reqCh' = Append(reqCh, enqueued + 1)
    /\ itemSt' = [itemSt EXCEPT ![enqueued + 1] = "queued"]
    /\ enqueued' = enqueued + 1
    /\ UNCHANGED <<parallel, totalOps, ppc, nCreated, conn, closeCnt, chClosed,
                   wpc, itemW, sendCnt>>
    /\ UNCHANGED <<traceVars, streamVars, dialVars, loadVars, parseVars, keyVars, readVars, createVars>>

\* A producer that goes on to wg.Wait() without close(reqCh).
CloseChForgotten ==
    /\ ppc = "produce"
    /\ enqueued >= totalOps
    /\ ppc' = "wait"
    /\ UNCHANGED <<parallel, totalOps, nCreated, conn, closeCnt, reqCh, chClosed, enqueued,
                   wpc, itemSt, itemW, sendCnt>>
    /\ UNCHANGED <<traceVars, streamVars, dialVars, loadVars, parseVars, keyVars, readVars, createVars>>

\* close(reqCh), after the producer loop
CloseCh ==
    /\ ppc = "produce"
    /\ enqueued >= totalOps
    /\ chClosed' = TRUE
    /\ ppc' = "wait"
    /\ UNCHANGED <<parallel, totalOps, nCreated, conn, closeCnt, reqCh, enqueued,
                   wpc, itemSt, itemW, sendCnt>>
    /\ UNCHANGED <<traceVars, streamVars, dialVars, loadVars, parseVars, keyVars, readVars, createVars>>

\* worker: it := <-reqCh; go func(...) { db.Update(...) }(key, values)
Receive(w) ==
    /\ Alive
    /\ wpc[w] = "loop"
    /\ reqCh # <<>>
    /\ reqCh' = Tail(reqCh)
    /\ itemSt' = [itemSt EXCEPT ![Head(reqCh)] = "spawned"]
    /\ itemW' = [itemW EXCEPT ![Head(reqCh)] = w]
    /\ UNCHANGED <<parallel, totalOps, ppc, nCreated, conn, closeCnt, chClosed, enqueued,
                   wpc, sendCnt>>
    /\ UNCHANGED <<traceVars, streamVars, dialVars, loadVars, parseVars, keyVars, readVars, createVars>>

\* worker: the range loop ends; defer wg.Done()
WorkerExit(w) ==
    /\ Alive
    /\ wpc[w] = "loop"
    /\ RangeDone(reqCh, chClosed)
    /\ wpc' = [wpc EXCEPT ![w] = "done"]
    /\ UNCHANGED <<parallel, totalOps, ppc, nCreated, conn, closeCnt, reqCh, chClosed,
                   enqueued, itemSt, itemW, sendCnt>>
    /\ UNCHANGED <<traceVars, streamVars, dialVars, loadVars, parseVars, keyVars, readVars, createVars>>

\* spawned goroutine: db.Update -> db.client.Put(ctx, req) on the worker's
\* client; on a closed connection the call fails without sending.
UpdateStart(i) ==
    /\ Alive
    /\ itemSt[i] = "spawned"
    /\ IF conn[itemW[i]] = "open"
       THEN /\ sendCnt' = [sendCnt EXCEPT ![i] = @ + 1]
            /\ itemSt' = [itemSt EXCEPT ![i] = "inflight"]
       ELSE /\ itemSt' = [itemSt EXCEPT ![i] = "failed"]
            /\ UNCHANGED sendCnt
    /\ UNCHANGED <<parallel, totalOps, ppc, nCreated, conn, closeCnt, reqCh, chClosed,
                   enqueued, wpc, itemW>>
    /\ UNCHANGED <<traceVars, streamVars, dialVars, loadVars, parseVars, keyVars, readVars, createVars>>

\* spawned goroutine: the Put call returns (response or error)
UpdateDone(i) ==
    /\ Alive
    /\ itemSt[i] = "inflight"
    /\ itemSt' = [itemSt EXCEPT ![i] = "done"]
    /\ UNCHANGED <<parallel, totalOps, ppc, nCreated, conn, closeCnt, reqCh, chClosed,
                   enqueued, wpc, itemW, sendCnt>>
    /\ UNCHANGED <<traceVars, streamVars, dialVars, loadVars, parseVars, keyVars, readVars, createVars>>

\* wg.Wait() returns once every worker has called wg.Done()
WaitDoneAfterCompletions ==
    /\ ppc = "wait"
    /\ \A w \in Clients : wpc[w] = "done"
    /\ \A i \in Items : itemSt[i] \in {"done", "failed"}
    /\ ppc' = "report"
    /\ UNCHANGED <<parallel, totalOps, nCreated, conn, closeCnt, reqCh, chClosed, enqueued,
                   wpc, itemSt, itemW, sendCnt>>
    /\ UNCHANGED <<traceVars, streamVars, dialVars, loadVars, parseVars, keyVars, readVars, createVars>>

WaitDone ==
    /\ ppc = "wait"
    /\ \A w \in Clients : wpc[w] = "done"
    /\ ppc' = "report"
    /\ UNCHANGED <<parallel, totalOps, nCreated, conn, closeCnt, reqCh, chClosed, enqueued,
                   wpc, itemSt, itemW, sendCnt>>
    /\ UNCHANGED <<traceVars, streamVars, dialVars, loadVars, parseVars, keyVars, readVars, createVars>>

\* bar.Finish(); elapsed := time.Since(start); fmt.Printf("Done ...")
Report ==
    /\ ppc = "report"
    /\ ppc' = "closing"
    /\ UNCHANGED <<parallel, totalOps, nCreated, conn, closeCnt, reqCh, chClosed, enqueued,
                   wpc, itemSt, itemW, sendCnt>>
    /\ UNCHANGED <<traceVars, streamVars, dialVars, loadVars, parseVars, keyVars, readVars, createVars>>

\* The deferred dbi.Close() calls run last-in first-out (raftDB.Close:
\* db.conn.Close()).
DeferredClose ==
    /\ ppc = "closing"
    /\ \E i \in Clients :
         /\ conn[i] = "open"
         /\ \A j \in Clients : conn[j] = "open" => j <= i
         /\ conn' = [conn EXCEPT ![i] = "closed"]
         /\ closeCnt' = [closeCnt EXCEPT ![i] = @ + 1]
    /\ UNCHANGED <<parallel, totalOps, ppc, nCreated, reqCh, chClosed, enqueued,
                   wpc, itemSt, itemW, sendCnt>>
    /\ UNCHANGED <<traceVars, streamVars, dialVars, loadVars, parseVars, keyVars, readVars, createVars>>

\* runPut returns, main returns, the process ends
Return ==
    /\ ppc = "closing"
    /\ \A i \in Clients : conn[i] # "open"
    /\ ppc' = "returned"
    /\ UNCHANGED <<parallel, totalOps, nCreated, conn, closeCnt, reqCh, chClosed, enqueued,
                   wpc, itemSt, itemW, sendCnt>>
    /\ UNCHANGED <<traceVars, streamVars, dialVars, loadVars, parseVars, keyVars, readVars, createVars>>

\* The state at the start of runPut's client creation loop; the trace
\* workload and the streaming binding are not running.
PutInit ==
    /\ parallel \in 1..MaxParallel
    /\ totalOps \in 0..MaxTotalOps
    /\ ppc = "create"
    /\ nCreated = 0
    /\ conn = [i \in 1..parallel |-> "none"]
    /\ closeCnt = [i \in 1..parallel |-> 0]
    /\ reqCh = <<>>
    /\ chClosed = FALSE
    /\ enqueued = 0
    /\ wpc = [w \in 1..parallel |-> "notStarted"]
    /\ itemSt = [i \in 1..totalOps |-> "new"]
    /\ itemW = [i \in 1..totalOps |-> 0]
    /\ sendCnt = [i \in 1..totalOps |-> 0]
    /\ records = <<>>
    /\ loopReplay = FALSE
    /\ readMode = "read"
    /\ writeValueSize = TraceWriteValueSizeDefault
    /\ recordIdx = 0
    /\ tpc = [t \in Threads |-> "idle"]
    /\ tidx = [t \in Threads |-> 0]
    /\ claims = <<>>
    /\ replayed = <<>>
    /\ lastRet = [t \in Threads |-> NoRet]
    /\ spc = [t \in StreamThreads |-> "off"]
    /\ sconn = [t \in StreamThreads |-> "none"]
    /\ sstream = [t \in StreamThreads |-> "none"]
    /\ cancelled = [t \in StreamThreads |-> FALSE]
    /\ drain = [t \in StreamThreads |-> "none"]
    /\ recvCount = [t \in StreamThreads |-> 0]
    /\ sent = [t \in StreamThreads |-> 0]
    /\ acksInFlight = [t \in StreamThreads |-> 0]
    /\ cleanupPos = [t \in StreamThreads |-> 0]
    /\ cleanupLog = [t \in StreamThreads |-> <<>>]
    /\ fatal = FALSE
    /\ runCancelled = FALSE
    /\ users = [t \in StreamThreads |-> {}]
    /\ sendCalls = 0
    /\ dialBinding = "unary"
    /\ dialSt = [t \in StreamThreads |-> "off"]
    /\ dialElapsed = [t \in StreamThreads |-> 0]
    /\ backendUp = TRUE
    /\ uniqueKeys = <<>>
    /\ valueSizes = <<>>
    /\ loadIdx = 0
    /\ lpc = [t \in Threads |-> "off"]
    /\ lidx = [t \in Threads |-> 0]
    /\ inserted = <<>>
    /\ lines = <<>>
    /\ maxRecords = 0
    /\ fieldsPerRecord = 0
    /\ lineNum = 0
    /\ parsed = <<>>
    /\ accepted = <<>>
    /\ parseDone = TRUE
    /\ keySpace = 0
    /\ keySize = 0
    /\ keyBuf = <<>>
    /\ itemKeys = <<>>
    /\ ids = <<>>
    /\ store = {}
    /\ readRet = <<>>
    /\ traceFile = ""
    /\ readModeProp = "read"
    /\ cpc = "off"
    /\ created = NotCreated

PutNext ==
    \/ CreateOk
    \/ CreateFail
    \/ StartWorkers
    \/ Enqueue
    \/ CloseCh
    \/ \E w \in Clients : Receive(w)
    \/ \E w \in Clients : WorkerExit(w)
    \/ \E i \in Items : UpdateStart(i)
    \/ \E i \in Items : UpdateDone(i)
    \/ WaitDone
    \/ Report
    \/ DeferredClose
    \/ Return

SpecPut == PutInit /\ [][PutNext]_vars

\* ===================================================== streaming binding
\* The statements of CleanupThread, in program order.
\* A CleanupThread that waits for the drain loop before cancelling.
CleanupStepsWaitBeforeCancel == <<"CloseSend", "Wait", "cancel", "Close">>

CleanupStepsCloseBeforeWait == <<"CloseSend", "cancel", "Close", "Wait">>

CleanupSteps == <<"CloseSend", "cancel", "Wait", "Close">>

\* log.Fatalf ends the process: no thread takes another step.
AbortedNever == FALSE

Aborted == fatal

\* InitThread: context.WithCancel, grpc.Dial(..., WithBlock()) succeeds
InitDialOk(t) ==
    /\ ~Aborted
    /\ spc[t] = "new"
    /\ sconn' = [sconn EXCEPT ![t] = "open"]
    /\ spc' = [spc EXCEPT ![t] = "dialed"]
    /\ UNCHANGED <<sstream, cancelled, drain, recvCount, sent, acksInFlight,
                   cleanupPos, cleanupLog, fatal>>
    /\ UNCHANGED <<runCancelled, users, sendCalls>>
    /\ UNCHANGED <<traceVars, putVars, dialVars, loadVars, parseVars, keyVars, readVars, createVars>>

\* InitThread: grpc.Dial fails: log.Fatalf
InitDialFail(t) ==
    /\ ~Aborted
    /\ spc[t] = "new"
    /\ fatal' = TRUE
    /\ UNCHANGED <<spc, sconn, sstream, cancelled, drain, recvCount, sent, acksInFlight,
                   cleanupPos, cleanupLog>>
    /\ UNCHANGED <<runCancelled, users, sendCalls>>
    /\ UNCHANGED <<traceVars, putVars, dialVars, loadVars, parseVars, keyVars, readVars, createVars>>

\* InitThread: client.StreamProposals(tctx) succeeds; the drain goroutine
\* is started and the threadStream is stashed in the context
InitStreamOk(t) ==
    /\ ~Aborted
    /\ spc[t] = "dialed"
    /\ sstream' = [sstream EXCEPT ![t] = "open"]
    /\ drain' = [drain EXCEPT ![t] = "running"]
    /\ spc' = [spc EXCEPT ![t] = "running"]
    /\ UNCHANGED <<sconn, cancelled, recvCount, sent, acksInFlight,
                   cleanupPos, cleanupLog, fatal>>
    /\ UNCHANGED <<runCancelled, users, sendCalls>>
    /\ UNCHANGED <<traceVars, putVars, dialVars, loadVars, parseVars, keyVars, readVars, createVars>>

\* InitThread: StreamProposals fails: conn.Close(); log.Fatalf
InitStreamFail(t) ==
    /\ ~Aborted
    /\ spc[t] = "dialed"
    /\ sconn' = [sconn EXCEPT ![t] = "closed"]
    /\ fatal' = TRUE
    /\ UNCHANGED <<spc, sstream, cancelled, drain, recvCount, sent, acksInFlight,
                   cleanupPos, cleanupLog>>
    /\ UNCHANGED <<runCancelled, users, sendCalls>>
    /\ UNCHANGED <<traceVars, putVars, dialVars, loadVars, parseVars, keyVars, readVars, createVars>>

\* Number of successful sends of the threads 1..n together.
RECURSIVE TotalSent(_)
TotalSent(n) == IF n = 0 THEN 0 ELSE sent[n] + TotalSent(n - 1)

\* ts := ctx.Value(raftThreadKey).(*threadStream): the stream a thread sends
\* on is the one its own InitThread stashed in its context.
StreamOfShared(t) == 1

StreamOf(t) == t

\* tctx, cancel := context.WithCancel(ctx); client.StreamProposals(tctx):
\* the stream's context is done once ts.cancel() was called or the run's
\* context was cancelled.
CtxDoneIgnoresRun(t) == cancelled[t]

CtxDone(t) == cancelled[t] \/ runCancelled

\* The run's context is cancelled (the framework's deadline or interrupt).
RunCancel ==
    /\ ~Aborted
    /\ ~runCancelled
    /\ runCancelled' = TRUE
    /\ UNCHANGED <<spc, sconn, sstream, cancelled, drain, recvCount, sent, acksInFlight,
                   cleanupPos, cleanupLog, fatal, users, sendCalls>>
    /\ UNCHANGED <<traceVars, putVars, dialVars, loadVars, parseVars, keyVars, readVars, createVars>>

\* An Update that gives up its connection when the send fails.
StreamSendClosesOnError(t) ==
    /\ ~Aborted
    /\ spc[t] = "running"
    /\ sendCalls < MaxSends
    /\ sendCalls' = sendCalls + 1
    /\ IF sstream[StreamOf(t)] = "open" /\ ~CtxDone(StreamOf(t))
       THEN /\ sent' = [sent EXCEPT ![StreamOf(t)] = @ + 1]
            /\ users' = [users EXCEPT ![StreamOf(t)] = @ \cup {t}]
            /\ UNCHANGED sconn
       ELSE /\ sconn' = [sconn EXCEPT ![t] = "closed"]
            /\ UNCHANGED <<sent, users>>
    /\ UNCHANGED <<spc, sstream, cancelled, drain, recvCount, acksInFlight,
                   cleanupPos, cleanupLog, fatal, runCancelled>>
    /\ UNCHANGED <<traceVars, putVars, dialVars, loadVars, parseVars, keyVars, readVars, createVars>>

\* Update / Insert / Delete: ts.stream.Send(req); a send on a stream that
\* is no longer open for sending, or whose context is done, returns the
\* error and changes nothing.
StreamSend(t) ==
    /\ ~Aborted
    /\ spc[t] = "running"
    /\ sendCalls < MaxSends
    /\ sendCalls' = sendCalls + 1
    /\ IF sstream[StreamOf(t)] = "open" /\ ~CtxDone(StreamOf(t))
       THEN /\ sent' = [sent EXCEPT ![StreamOf(t)] = @ + 1]
            /\ users' = [users EXCEPT ![StreamOf(t)] = @ \cup {t}]
       ELSE UNCHANGED <<sent, users>>
    /\ UNCHANGED <<spc, sconn, sstream, cancelled, drain, recvCount, acksInFlight,
                   cleanupPos, cleanupLog, fatal, runCancelled>>
    /\ UNCHANGED <<traceVars, putVars, dialVars, loadVars, parseVars, keyVars, readVars, createVars>>

\* The backend answers a request it has not answered yet.
BackendAck(t) ==
    /\ ~Aborted
    /\ sstream[t] \in {"open", "halfclosed"}
    /\ recvCount[t] + acksInFlight[t] < sent[t]
    /\ acksInFlight' = [acksInFlight EXCEPT ![t] = @ + 1]
    /\ UNCHANGED <<spc, sconn, sstream, cancelled, drain, recvCount, sent,
                   cleanupPos, cleanupLog, fatal>>
    /\ UNCHANGED <<runCancelled, users, sendCalls>>
    /\ UNCHANGED <<traceVars, putVars, dialVars, loadVars, parseVars, keyVars, readVars, createVars>>

\* The stream ends: the backend finishes it (after the half-close or on its
\* own) or the transport fails.
StreamEnd(t) ==
    /\ ~Aborted
    /\ sstream[t] \in {"open", "halfclosed"}
    /\ sstream' = [sstream EXCEPT ![t] = "ended"]
    /\ UNCHANGED <<spc, sconn, cancelled, drain, recvCount, sent, acksInFlight,
                   cleanupPos, cleanupLog, fatal>>
    /\ UNCHANGED <<runCancelled, users, sendCalls>>
    /\ UNCHANGED <<traceVars, putVars, dialVars, loadVars, parseVars, keyVars, readVars, createVars>>

\* drain goroutine: stream.Recv() returns a response; atomic.AddInt64(&recvCount, 1)
DrainRecvContinuesAfterError(t) ==
    /\ ~Aborted
    /\ drain[t] \in {"running", "done"}
    /\ acksInFlight[t] > 0
    /\ sconn[t] = "open"
    /\ acksInFlight' = [acksInFlight EXCEPT ![t] = @ - 1]
    /\ recvCount' = [recvCount EXCEPT ![t] = @ + 1]
    /\ UNCHANGED <<spc, sconn, sstream, cancelled, drain, sent,
                   cleanupPos, cleanupLog, fatal>>
    /\ UNCHANGED <<runCancelled, users, sendCalls>>
    /\ UNCHANGED <<traceVars, putVars, dialVars, loadVars, parseVars, keyVars, readVars, createVars>>

DrainRecv(t) ==
    /\ ~Aborted
    /\ drain[t] = "running"
    /\ acksInFlight[t] > 0
    /\ sconn[t] = "open"
    /\ acksInFlight' = [acksInFlight EXCEPT ![t] = @ - 1]
    /\ recvCount' = [recvCount EXCEPT ![t] = @ + 1]
    /\ UNCHANGED <<spc, sconn, sstream, cancelled, drain, sent,
                   cleanupPos, cleanupLog, fatal>>
    /\ UNCHANGED <<runCancelled, users, sendCalls>>
    /\ UNCHANGED <<traceVars, putVars, dialVars, loadVars, parseVars, keyVars, readVars, createVars>>

\* drain goroutine: stream.Recv() returns an error (context cancelled, the
\* stream ended, the connection closed): log, return, wg.Done()
DrainExitCountsError(t) ==
    /\ ~Aborted
    /\ drain[t] = "running"
    /\ CtxDone(t) \/ sstream[t] = "ended" \/ sconn[t] = "closed"
    /\ drain' = [drain EXCEPT ![t] = "done"]
    /\ recvCount' = [recvCount EXCEPT ![t] = @ + 1]
    /\ UNCHANGED <<spc, sconn, sstream, cancelled, sent, acksInFlight,
                   cleanupPos, cleanupLog, fatal>>
    /\ UNCHANGED <<runCancelled, users, sendCalls>>
    /\ UNCHANGED <<traceVars, putVars, dialVars, loadVars, parseVars, keyVars, readVars, createVars>>

\* A drain loop that ends the process when its receive fails (log.Fatalf in
\* place of log.Printf).
DrainExitFatal(t) ==
    /\ ~Aborted
    /\ drain[t] = "running"
    /\ CtxDone(t) \/ sstream[t] = "ended" \/ sconn[t] = "closed"
    /\ drain' = [drain EXCEPT ![t] = "done"]
    /\ fatal' = TRUE
    /\ UNCHANGED <<spc, sconn, sstream, cancelled, recvCount, sent, acksInFlight,
                   cleanupPos, cleanupLog>>
    /\ UNCHANGED <<runCancelled, users, sendCalls>>
    /\ UNCHANGED <<traceVars, putVars, dialVars, loadVars, parseVars, keyVars, readVars, createVars>>

DrainExit(t) ==
    /\ ~Aborted
    /\ drain[t] = "running"
    /\ CtxDone(t) \/ sstream[t] = "ended" \/ sconn[t] = "closed"
    /\ drain' = [drain EXCEPT ![t] = "done"]
    /\ UNCHANGED <<spc, sconn, sstream, cancelled, recvCount, sent, acksInFlight,
                   cleanupPos, cleanupLog, fatal>>
    /\ UNCHANGED <<runCancelled, users, sendCalls>>
    /\ UNCHANGED <<traceVars, putVars, dialVars, loadVars, parseVars, keyVars, readVars, createVars>>

\* CleanupThread: its next statement, in the order of CleanupSteps:
\*   ts.stream.CloseSend(); ts.cancel(); ts.wg.Wait(); ts.conn.Close()
CleanupStep(t) ==
    /\ ~Aborted
    /\ spc[t] \in {"running", "cleanup"}
    /\ cleanupPos[t] < Len(CleanupSteps)
    /\ LET step == CleanupSteps[cleanupPos[t] + 1] IN
         /\ step = "Wait" => drain[t] = "done"
         /\ sstream' = IF step = "CloseSend" /\ sstream[t] = "open"
                       THEN [sstream EXCEPT ![t] = "halfclosed"] ELSE sstream
         /\ cancelled' = IF step = "cancel"
                         THEN [cancelled EXCEPT ![t] = TRUE] ELSE cancelled
         /\ sconn' = IF step = "Close" THEN [sconn EXCEPT ![t] = "closed"] ELSE sconn
         /\ cleanupLog' = [cleanupLog EXCEPT ![t] = Append(@, step)]
    /\ cleanupPos' = [cleanupPos EXCEPT ![t] = @ + 1]
    /\ spc' = [spc EXCEPT ![t] =
                 IF cleanupPos[t] + 1 = Len(CleanupSteps) THEN "cleaned" ELSE "cleanup"]
    /\ UNCHANGED <<drain, recvCount, sent, acksInFlight, fatal>>
    /\ UNCHANGED <<runCancelled, users, sendCalls>>
    /\ UNCHANGED <<traceVars, putVars, dialVars, loadVars, parseVars, keyVars, readVars, createVars>>

\* The state before any thread has called InitThread; the trace workload
\* and runPut are not running.
StreamInit ==
    /\ spc = [t \in StreamThreads |-> "new"]
    /\ sconn = [t \in StreamThreads |-> "none"]
    /\ sstream = [t \in StreamThreads |-> "none"]
    /\ cancelled = [t \in StreamThreads |-> FALSE]
    /\ drain = [t \in StreamThreads |-> "none"]
    /\ recvCount = [t \in StreamThreads |-> 0]
    /\ sent = [t \in StreamThreads |-> 0]
    /\ acksInFlight = [t \in StreamThreads |-> 0]
    /\ cleanupPos = [t \in StreamThreads |-> 0]
    /\ cleanupLog = [t \in StreamThreads |-> <<>>]
    /\ fatal = FALSE
    /\ runCancelled = FALSE
    /\ users = [t \in StreamThreads |-> {}]
    /\ sendCalls = 0
    /\ dialBinding = "unary"
    /\ dialSt = [t \in StreamThreads |-> "off"]
    /\ dialElapsed = [t \in StreamThreads |-> 0]
    /\ backendUp = TRUE
    /\ uniqueKeys = <<>>
    /\ valueSizes = <<>>
    /\ loadIdx = 0
    /\ lpc = [t \in Threads |-> "off"]
    /\ lidx = [t \in Threads |-> 0]
    /\ inserted = <<>>
    /\ lines = <<>>
    /\ maxRecords = 0
    /\ fieldsPerRecord = 0
    /\ lineNum = 0
    /\ parsed = <<>>
    /\ accepted = <<>>
    /\ parseDone = TRUE
    /\ keySpace = 0
    /\ keySize = 0
    /\ keyBuf = <<>>
    /\ itemKeys = <<>>
    /\ ids = <<>>
    /\ store = {}
    /\ readRet = <<>>
    /\ records = <<>>
    /\ loopReplay = FALSE
    /\ readMode = "read"
    /\ writeValueSize = TraceWriteValueSizeDefault
    /\ recordIdx = 0
    /\ tpc = [t \in Threads |-> "idle"]
    /\ tidx = [t \in Threads |-> 0]
    /\ claims = <<>>
    /\ replayed = <<>>
    /\ lastRet = [t \in Threads |-> NoRet]
    /\ parallel = 0
    /\ totalOps = 0
    /\ ppc = "off"
    /\ nCreated = 0
    /\ conn = <<>>
    /\ closeCnt = <<>>
    /\ reqCh = <<>>
    /\ chClosed = FALSE
    /\ enqueued = 0
    /\ wpc = <<>>
    /\ itemSt = <<>>
    /\ itemW = <<>>
    /\ sendCnt = <<>>
    /\ traceFile = ""
    /\ readModeProp = "read"
    /\ cpc = "off"
    /\ created = NotCreated

StreamNext ==
    \/ RunCancel
    \/ \E t \in StreamThreads :
        \/ InitDialOk(t)
        \/ InitDialFail(t)
        \/ InitStreamOk(t)
        \/ InitStreamFail(t)
        \/ StreamSend(t)
        \/ BackendAck(t)
        \/ StreamEnd(t)
        \/ DrainRecv(t)
        \/ DrainExit(t)
        \/ CleanupStep(t)

SpecStream == StreamInit /\ [][StreamNext]_vars

\* ============================================== connection establishment
\* raft.dial_timeout: 2 * time.Second by default, in time units of one second.
DialTimeoutTicks == 2

Bindings == {"streaming", "unary"}

\* The deadline of a binding's dial. The unary Create dials with
\* grpc.DialContext under context.WithTimeout(dialTimeoutDuration); the
\* streaming InitThread dials with grpc.Dial(address, ..., grpc.WithBlock()),
\* which has no deadline and does not read raft.dial_timeout.
HasDeadline(b) == b = "unary"

\* A worker starts to dial.
DialStart(t) ==
    /\ dialSt[t] = "idle"
    /\ dialSt' = [dialSt EXCEPT ![t] = "dialing"]
    /\ UNCHANGED <<dialBinding, dialElapsed, backendUp>>
    /\ UNCHANGED <<traceVars, putVars, streamVars, loadVars, parseVars, keyVars, readVars, createVars>>

\* WithBlock: the dial returns once the connection is up.
DialConnect(t) ==
    /\ dialSt[t] = "dialing"
    /\ backendUp
    /\ dialSt' = [dialSt EXCEPT ![t] = "connected"]
    /\ UNCHANGED <<dialBinding, dialElapsed, backendUp>>
    /\ UNCHANGED <<traceVars, putVars, streamVars, loadVars, parseVars, keyVars, readVars, createVars>>

\* The dial's context reaches its deadline: the dial returns an error.
DialExpire(t) ==
    /\ dialSt[t] = "dialing"
    /\ HasDeadline(dialBinding)
    /\ dialElapsed[t] >= DialTimeoutTicks
    /\ dialSt' = [dialSt EXCEPT ![t] = "failed"]
    /\ UNCHANGED <<dialBinding, dialElapsed, backendUp>>
    /\ UNCHANGED <<traceVars, putVars, streamVars, loadVars, parseVars, keyVars, readVars, createVars>>

\* One time unit passes for every dial that is running; a dial with a
\* deadline does not run past it.
Tick ==
    /\ \E t \in StreamThreads : dialSt[t] = "dialing"
    /\ \A t \in StreamThreads :
         dialSt[t] = "dialing" =>
            /\ dialElapsed[t] < MaxTicks
            /\ HasDeadline(dialBinding) => dialElapsed[t] < DialTimeoutTicks
    /\ dialElapsed' = [t \in StreamThreads |->
                         IF dialSt[t] = "dialing" THEN dialElapsed[t] + 1 ELSE dialElapsed[t]]
    /\ UNCHANGED <<dialBinding, dialSt, backendUp>>
    /\ UNCHANGED <<traceVars, putVars, streamVars, loadVars, parseVars, keyVars, readVars, createVars>>

\* The backend starts or stops accepting connections.
BackendFlip ==
    /\ \E t \in StreamThreads : dialSt[t] \in {"idle", "dialing"}
    /\ backendUp' = ~backendUp
    /\ UNCHANGED <<dialBinding, dialSt, dialElapsed>>
    /\ UNCHANGED <<traceVars, putVars, streamVars, loadVars, parseVars, keyVars, readVars, createVars>>

\* Before any worker has dialled, for either binding and a backend that is
\* reachable or not.
DialInit ==
    /\ dialBinding \in Bindings
    /\ dialSt = [t \in StreamThreads |-> "idle"]
    /\ dialElapsed = [t \in StreamThreads |-> 0]
    /\ backendUp \in BOOLEAN
    /\ records = <<>>
    /\ loopReplay = FALSE
    /\ readMode = "read"
    /\ writeValueSize = TraceWriteValueSizeDefault
    /\ recordIdx = 0
    /\ tpc = [t \in Threads |-> "idle"]
    /\ tidx = [t \in Threads |-> 0]
    /\ claims = <<>>
    /\ replayed = <<>>
    /\ lastRet = [t \in Threads |-> NoRet]
    /\ parallel = 0
    /\ totalOps = 0
    /\ ppc = "off"
    /\ nCreated = 0
    /\ conn = <<>>
    /\ closeCnt = <<>>
    /\ reqCh = <<>>
    /\ chClosed = FALSE
    /\ enqueued = 0
    /\ wpc = <<>>
    /\ itemSt = <<>>
    /\ itemW = <<>>
    /\ sendCnt = <<>>
    /\ spc = [t \in StreamThreads |-> "off"]
    /\ sconn = [t \in StreamThreads |-> "none"]
    /\ sstream = [t \in StreamThreads |-> "none"]
    /\ cancelled = [t \in StreamThreads |-> FALSE]
    /\ drain = [t \in StreamThreads |-> "none"]
    /\ recvCount = [t \in StreamThreads |-> 0]
    /\ sent = [t \in StreamThreads |-> 0]
    /\ acksInFlight = [t \in StreamThreads |-> 0]
    /\ cleanupPos = [t \in StreamThreads |-> 0]
    /\ cleanupLog = [t \in StreamThreads |-> <<>>]
    /\ fatal = FALSE
    /\ runCancelled = FALSE
    /\ users = [t \in StreamThreads |-> {}]
    /\ sendCalls = 0
    /\ uniqueKeys = <<>>
    /\ valueSizes = <<>>
    /\ loadIdx = 0
    /\ lpc = [t \in Threads |-> "off"]
    /\ lidx = [t \in Threads |-> 0]
    /\ inserted = <<>>
    /\ lines = <<>>
    /\ maxRecords = 0
    /\ fieldsPerRecord = 0
    /\ lineNum = 0
    /\ parsed = <<>>
    /\ accepted = <<>>
    /\ parseDone = TRUE
    /\ keySpace = 0
    /\ keySize = 0
    /\ keyBuf = <<>>
    /\ itemKeys = <<>>
    /\ ids = <<>>
    /\ store = {}
    /\ readRet = <<>>
    /\ traceFile = ""
    /\ readModeProp = "read"
    /\ cpc = "off"
    /\ created = NotCreated

DialNext ==
    \/ Tick
    \/ BackendFlip
    \/ \E t \in StreamThreads :
        \/ DialStart(t)
        \/ DialConnect(t)
        \/ DialExpire(t)

SpecDial == DialInit /\ [][DialNext]_vars

\* C14: the dial of every worker, in the streaming binding as in the unary
\* one, has returned by the time the configured dial timeout has passed: no
\* dial is still running after more than the timeout.
C14_DialWithinTimeout ==
    \A t \in StreamThreads : dialSt[t] = "dialing" => dialElapsed[t] <= DialTimeoutTicks

\* ============================================================ load phase
\* The keys of a trace.
KeysOf(recs) == { recs[i].key : i \in DOMAIN recs }

\* uniqueKeys: every key of the trace once, in the order the iteration over
\* uniqueKeysMap happens to produce.
UniqueKeyOrders(recs) ==
    { u \in [1..Cardinality(KeysOf(recs)) -> KeysOf(recs)] :
          \A i, j \in DOMAIN u : i # j => u[i] # u[j] }

\* valueSizes after the first n records: a key not yet in the map reads as 0;
\* if r.valueSize > valueSizes[r.key] { valueSizes[r.key] = r.valueSize }
RECURSIVE ValueSizesLastSeen(_, _)
ValueSizesLastSeen(recs, n) ==
    IF n = 0 THEN [k \in KeysOf(recs) |-> 0]
    ELSE [ValueSizesLastSeen(recs, n - 1) EXCEPT ![recs[n].key] = recs[n].valueSize]

RECURSIVE ValueSizesAfter(_, _)
ValueSizesAfter(recs, n) ==
    IF n = 0 THEN [k \in KeysOf(recs) |-> 0]
    ELSE LET prev == ValueSizesAfter(recs, n - 1)
         IN  IF recs[n].valueSize > prev[recs[n].key]
             THEN [prev EXCEPT ![recs[n].key] = recs[n].valueSize]
             ELSE prev

numUniqueKeys == Len(uniqueKeys)

LoadRecords ==
    { [key |-> k, valueSize |-> v, operation |-> "set"] : k \in {"a", "b"}, v \in {-1, 1, 2} }

LoadInputs == UNION { [1..n -> LoadRecords] : n \in 1..MaxRecords }

\* idx := atomic.AddInt64(&w.loadIdx, 1) - 1
LoadClaim(t) ==
    /\ lpc[t] = "idle"
    /\ loadIdx < MaxCalls
    /\ lidx' = [lidx EXCEPT ![t] = loadIdx]
    /\ loadIdx' = loadIdx + 1
    /\ lpc' = [lpc EXCEPT ![t] = "claimed"]
    /\ UNCHANGED <<uniqueKeys, valueSizes, inserted>>
    /\ UNCHANGED <<records, loopReplay, readMode, writeValueSize, recordIdx, tpc, tidx,
                   claims, replayed, lastRet>>
    /\ UNCHANGED <<putVars, streamVars, dialVars, parseVars, keyVars, readVars, createVars>>

\* if idx >= w.numUniqueKeys { return nil }
LoadReturn(t) ==
    /\ lpc[t] = "claimed"
    /\ lidx[t] >= numUniqueKeys
    /\ lpc' = [lpc EXCEPT ![t] = "idle"]
    /\ UNCHANGED <<uniqueKeys, valueSizes, loadIdx, lidx, inserted>>
    /\ UNCHANGED <<records, loopReplay, readMode, writeValueSize, recordIdx, tpc, tidx,
                   claims, replayed, lastRet>>
    /\ UNCHANGED <<putVars, streamVars, dialVars, parseVars, keyVars, readVars, createVars>>

\* key := w.uniqueKeys[idx]; valueSize := w.valueSizes[key], 100 if <= 0;
\* db.Insert(ctx, w.table, key, values)
LoadInsert(t) ==
    /\ lpc[t] = "claimed"
    /\ lidx[t] < numUniqueKeys
    /\ LET key == uniqueKeys[lidx[t] + 1]
           valueSize == IF valueSizes[key] <= 0 THEN DefaultValueSize ELSE valueSizes[key]
       IN  inserted' = Append(inserted, DbCall("Insert", key, valueSize))
    /\ lpc' = [lpc EXCEPT ![t] = "idle"]
    /\ UNCHANGED <<uniqueKeys, valueSizes, loadIdx, lidx>>
    /\ UNCHANGED <<records, loopReplay, readMode, writeValueSize, recordIdx, tpc, tidx,
                   claims, replayed, lastRet>>
    /\ UNCHANGED <<putVars, streamVars, dialVars, parseVars, keyVars, readVars, createVars>>

\* The state after traceWorkloadCreator.Create, before the load phase.
LoadInit ==
    /\ records \in LoadInputs
    /\ uniqueKeys \in UniqueKeyOrders(records)
    /\ valueSizes = ValueSizesAfter(records, Len(records))
    /\ loadIdx = 0
    /\ lpc = [t \in Threads |-> "idle"]
    /\ lidx = [t \in Threads |-> 0]
    /\ inserted = <<>>
    /\ loopReplay = FALSE
    /\ readMode = "read"
    /\ writeValueSize = TraceWriteValueSizeDefault
    /\ recordIdx = 0
    /\ tpc = [t \in Threads |-> "idle"]
    /\ tidx = [t \in Threads |-> 0]
    /\ claims = <<>>
    /\ replayed = <<>>
    /\ lastRet = [t \in Threads |-> NoRet]
    /\ parallel = 0
    /\ totalOps = 0
    /\ ppc = "off"
    /\ nCreated = 0
    /\ conn = <<>>
    /\ closeCnt = <<>>
    /\ reqCh = <<>>
    /\ chClosed = FALSE
    /\ enqueued = 0
    /\ wpc = <<>>
    /\ itemSt = <<>>
    /\ itemW = <<>>
    /\ sendCnt = <<>>
    /\ spc = [t \in StreamThreads |-> "off"]
    /\ sconn = [t \in StreamThreads |-> "none"]
    /\ sstream = [t \in StreamThreads |-> "none"]
    /\ cancelled = [t \in StreamThreads |-> FALSE]
    /\ drain = [t \in StreamThreads |-> "none"]
    /\ recvCount = [t \in StreamThreads |-> 0]
    /\ sent = [t \in StreamThreads |-> 0]
    /\ acksInFlight = [t \in StreamThreads |-> 0]
    /\ cleanupPos = [t \in StreamThreads |-> 0]
    /\ cleanupLog = [t \in StreamThreads |-> <<>>]
    /\ fatal = FALSE
    /\ runCancelled = FALSE
    /\ users = [t \in StreamThreads |-> {}]
    /\ sendCalls = 0
    /\ dialBinding = "unary"
    /\ dialSt = [t \in StreamThreads |-> "off"]
    /\ dialElapsed = [t \in StreamThreads |-> 0]
    /\ backendUp = TRUE
    /\ lines = <<>>
    /\ maxRecords = 0
    /\ fieldsPerRecord = 0
    /\ lineNum = 0
    /\ parsed = <<>>
    /\ accepted = <<>>
    /\ parseDone = TRUE
    /\ keySpace = 0
    /\ keySize = 0
    /\ keyBuf = <<>>
    /\ itemKeys = <<>>
    /\ ids = <<>>
    /\ store = {}
    /\ readRet = <<>>
    /\ traceFile = ""
    /\ readModeProp = "read"
    /\ cpc = "off"
    /\ created = NotCreated

LoadNext ==
    \E t \in Threads :
        \/ LoadClaim(t)
        \/ LoadReturn(t)
        \/ LoadInsert(t)

SpecLoad == LoadInit /\ [][LoadNext]_vars

\* ========================================================= parseTraceFile
\* A line of the trace file: its number of comma-separated fields and the
\* text of its valueSize field.
LineKinds ==
    { [nf |-> 5, valueSize |-> "2"],
      [nf |-> 7, valueSize |-> "2"],
      [nf |-> 7, valueSize |-> "x"] }

FileInputs == UNION { [1..n -> LineKinds] : n \in 0..MaxLines }

\* strconv.Atoi: the number and whether the text was one.
Atoi(str) == IF str = "2" THEN [val |-> 2, ok |-> TRUE] ELSE [val |-> 0, ok |-> FALSE]

\* csvReader.Read() of a reader made by csv.NewReader, whose FieldsPerRecord
\* starts at 0: the first record read sets FieldsPerRecord to its number of
\* fields, and every later record with another number of fields is returned
\* with the error ErrFieldCount.
CsvRead(line, fpr) ==
    [err |-> fpr > 0 /\ line.nf # fpr,
     fieldsPerRecord |-> IF fpr = 0 THEN line.nf ELSE fpr]

\* if maxRecords > 0 && int64(len(records)) >= maxRecords
CapReached == maxRecords > 0 /\ Len(parsed) >= maxRecords

\* the cap is reached: break; return records
ParseBreakAtCap ==
    /\ ~parseDone
    /\ CapReached
    /\ parseDone' = TRUE
    /\ UNCHANGED <<lines, maxRecords, fieldsPerRecord, lineNum, parsed, accepted>>
    /\ UNCHANGED <<traceVars, putVars, streamVars, dialVars, loadVars, keyVars, readVars, createVars>>

\* csvReader.Read() returns io.EOF: break; return records
ParseEOF ==
    /\ ~parseDone
    /\ ~CapReached
    /\ lineNum = Len(lines)
    /\ parseDone' = TRUE
    /\ UNCHANGED <<lines, maxRecords, fieldsPerRecord, lineNum, parsed, accepted>>
    /\ UNCHANGED <<traceVars, putVars, streamVars, dialVars, loadVars, keyVars, readVars, createVars>>

\* csvReader.Read() returns another error: lineNum++; continue
ParseSkipError ==
    /\ ~parseDone
    /\ ~CapReached
    /\ lineNum < Len(lines)
    /\ CsvRead(lines[lineNum + 1], fieldsPerRecord).err
    /\ fieldsPerRecord' = CsvRead(lines[lineNum + 1], fieldsPerRecord).fieldsPerRecord
    /\ lineNum' = lineNum + 1
    /\ UNCHANGED <<lines, maxRecords, parsed, accepted, parseDone>>
    /\ UNCHANGED <<traceVars, putVars, streamVars, dialVars, loadVars, keyVars, readVars, createVars>>

\* lineNum++; if len(record) < 7 { continue }
ParseSkipShort ==
    /\ ~parseDone
    /\ ~CapReached
    /\ lineNum < Len(lines)
    /\ ~CsvRead(lines[lineNum + 1], fieldsPerRecord).err
    /\ lines[lineNum + 1].nf < 7
    /\ fieldsPerRecord' = CsvRead(lines[lineNum + 1], fieldsPerRecord).fieldsPerRecord
    /\ lineNum' = lineNum + 1
    /\ UNCHANGED <<lines, maxRecords, parsed, accepted, parseDone>>
    /\ UNCHANGED <<traceVars, putVars, streamVars, dialVars, loadVars, keyVars, readVars, createVars>>

\* the fields are converted, conversion errors discarded, and the record
\* is appended
ParseAppend ==
    /\ ~parseDone
    /\ ~CapReached
    /\ lineNum < Len(lines)
    /\ ~CsvRead(lines[lineNum + 1], fieldsPerRecord).err
    /\ lines[lineNum + 1].nf >= 7
    /\ fieldsPerRecord' = CsvRead(lines[lineNum + 1], fieldsPerRecord).fieldsPerRecord
    /\ parsed' = Append(parsed, [key |-> "a",
                                 valueSize |-> Atoi(lines[lineNum + 1].valueSize).val,
                                 operation |-> "set"])
    /\ accepted' = Append(accepted, lineNum + 1)
    /\ lineNum' = lineNum + 1
    /\ UNCHANGED <<lines, maxRecords, parseDone>>
    /\ UNCHANGED <<traceVars, putVars, streamVars, dialVars, loadVars, keyVars, readVars, createVars>>

\* parseTraceFile is called on a file with a record cap.
ParseInit ==
    /\ lines \in FileInputs
    /\ maxRecords \in 0..MaxLines
    /\ fieldsPerRecord = 0
    /\ lineNum = 0
    /\ parsed = <<>>
    /\ accepted = <<>>
    /\ parseDone = FALSE
    /\ records = <<>>
    /\ loopReplay = FALSE
    /\ readMode = "read"
    /\ writeValueSize = TraceWriteValueSizeDefault
    /\ recordIdx = 0
    /\ tpc = [t \in Threads |-> "idle"]
    /\ tidx = [t \in Threads |-> 0]
    /\ claims = <<>>
    /\ replayed = <<>>
    /\ lastRet = [t \in Threads |-> NoRet]
    /\ parallel = 0
    /\ totalOps = 0
    /\ ppc = "off"
    /\ nCreated = 0
    /\ conn = <<>>
    /\ closeCnt = <<>>
    /\ reqCh = <<>>
    /\ chClosed = FALSE
    /\ enqueued = 0
    /\ wpc = <<>>
    /\ itemSt = <<>>
    /\ itemW = <<>>
    /\ sendCnt = <<>>
    /\ spc = [t \in StreamThreads |-> "off"]
    /\ sconn = [t \in StreamThreads |-> "none"]
    /\ sstream = [t \in StreamThreads |-> "none"]
    /\ cancelled = [t \in StreamThreads |-> FALSE]
    /\ drain = [t \in StreamThreads |-> "none"]
    /\ recvCount = [t \in StreamThreads |-> 0]
    /\ sent = [t \in StreamThreads |-> 0]
    /\ acksInFlight = [t \in StreamThreads |-> 0]
    /\ cleanupPos = [t \in StreamThreads |-> 0]
    /\ cleanupLog = [t \in StreamThreads |-> <<>>]
    /\ fatal = FALSE
    /\ runCancelled = FALSE
    /\ users = [t \in StreamThreads |-> {}]
    /\ sendCalls = 0
    /\ dialBinding = "unary"
    /\ dialSt = [t \in StreamThreads |-> "off"]
    /\ dialElapsed = [t \in StreamThreads |-> 0]
    /\ backendUp = TRUE
    /\ uniqueKeys = <<>>
    /\ valueSizes = <<>>
    /\ loadIdx = 0
    /\ lpc = [t \in Threads |-> "off"]
    /\ lidx = [t \in Threads |-> 0]
    /\ inserted = <<>>
    /\ keySpace = 0
    /\ keySize = 0
    /\ keyBuf = <<>>
    /\ itemKeys = <<>>
    /\ ids = <<>>
    /\ store = {}
    /\ readRet = <<>>
    /\ traceFile = ""
    /\ readModeProp = "read"
    /\ cpc = "off"
    /\ created = NotCreated

ParseNext ==
    \/ ParseBreakAtCap
    \/ ParseEOF
    \/ ParseSkipError
    \/ ParseSkipShort
    \/ ParseAppend

SpecParse == ParseInit /\ [][ParseNext]_vars

\* ================================================= runPut: key generation
KeySpaces == {-1, 0, 1, 2, 257, 65538}

KeySizes == 0..MaxKeySize

\* The ids rand.Int63n(int64(keySpace)) is sampled at: all below keySpace.
SampleIds == {0, 1, 255, 256, 65537}

DrawnIds(n) == { i \in SampleIds : i < n }

\* make([]byte, n)
Zeros(n) == [i \in 1..n |-> 0]

\* x >> (8 * k)
RECURSIVE Shr8(_, _)
Shr8(x, k) == IF k = 0 THEN x ELSE Shr8(x \div 256, k - 1)

\* binary.BigEndian.PutUint64(id8[:], uint64(id)): byte i is id >> (8 * (8 - i))
PutUint64(id) == [i \in 1..8 |-> Shr8(id, 8 - i) % 256]

\* src[k:]
SliceFrom(src, k) == SubSeq(src, k + 1, Len(src))

\* copy(dst[off:], src): as many bytes as fit
Copy(dst, off, src) ==
    [i \in 1..Len(dst) |->
        IF i > off /\ i - off <= Len(src) THEN src[i - off] ELSE dst[i]]

\* constKey = make([]byte, keySize), allocated when keySpace <= 1
constKeyOnlyBelowOne == IF keySpace < 1 THEN Zeros(keySize) ELSE <<>>

constKey == IF keySpace <= 1 THEN Zeros(keySize) ELSE <<>>

\* if keySize >= 8 { copy(keyBuf[keySize-8:], id8[:]) }
\* else { copy(keyBuf, id8[8-keySize:]) }
PlaceIdAtFront(buf, id8) ==
    IF Len(buf) >= 8
    THEN Copy(buf, 0, id8)
    ELSE Copy(buf, 0, SliceFrom(id8, 8 - Len(buf)))

PlaceIdKeepHighBytes(buf, id8) ==
    IF Len(buf) >= 8
    THEN Copy(buf, Len(buf) - 8, id8)
    ELSE Copy(buf, 0, id8)

PlaceId(buf, id8) ==
    IF Len(buf) >= 8
    THEN Copy(buf, Len(buf) - 8, id8)
    ELSE Copy(buf, 0, SliceFrom(id8, 8 - Len(buf)))

\* Every earlier key shares keyBuf's backing array (key = keyBuf), so it
\* shows whatever was written to the buffer last.
KeysAfterWriteSharingKeyBuf(keys, buf) == [i \in DOMAIN keys |-> buf]

\* key = append([]byte(nil), keyBuf...): each item got a backing array of its
\* own, so the keys handed out earlier read the same after keyBuf has been
\* overwritten with buf.
KeysAfterWrite(keys, buf) == keys

\* keySpace > 1: draw an id, place it in keyBuf, key = a copy of keyBuf
GenRandomKey ==
    /\ Len(itemKeys) < MaxTotalOps
    /\ keySpace > 1
    /\ \E id \in DrawnIds(keySpace) :
         /\ keyBuf' = PlaceId(keyBuf, PutUint64(id))
         /\ ids' = Append(ids, id)
    /\ itemKeys' = Append(KeysAfterWrite(itemKeys, keyBuf'), keyBuf')
    /\ UNCHANGED <<keySpace, keySize>>
    /\ UNCHANGED <<traceVars, putVars, streamVars, dialVars, loadVars, parseVars, readVars, createVars>>

\* keySpace <= 1: key = constKey
GenConstKey ==
    /\ Len(itemKeys) < MaxTotalOps
    /\ keySpace <= 1
    /\ itemKeys' = Append(itemKeys, constKey)
    /\ UNCHANGED <<keySpace, keySize, keyBuf, ids>>
    /\ UNCHANGED <<traceVars, putVars, streamVars, dialVars, loadVars, parseVars, readVars, createVars>>

\* keyBuf := make([]byte, keySize), before the producer loop
KeyInit ==
    /\ keySpace \in KeySpaces
    /\ keySize \in KeySizes
    /\ keyBuf = Zeros(keySize)
    /\ itemKeys = <<>>
    /\ ids = <<>>
    /\ records = <<>>
    /\ loopReplay = FALSE
    /\ readMode = "read"
    /\ writeValueSize = TraceWriteValueSizeDefault
    /\ recordIdx = 0
    /\ tpc = [t \in Threads |-> "idle"]
    /\ tidx = [t \in Threads |-> 0]
    /\ claims = <<>>
    /\ replayed = <<>>
    /\ lastRet = [t \in Threads |-> NoRet]
    /\ parallel = 0
    /\ totalOps = 0
    /\ ppc = "off"
    /\ nCreated = 0
    /\ conn = <<>>
    /\ closeCnt = <<>>
    /\ reqCh = <<>>
    /\ chClosed = FALSE
    /\ enqueued = 0
    /\ wpc = <<>>
    /\ itemSt = <<>>
    /\ itemW = <<>>
    /\ sendCnt = <<>>
    /\ spc = [t \in StreamThreads |-> "off"]
    /\ sconn = [t \in StreamThreads |-> "none"]
    /\ sstream = [t \in StreamThreads |-> "none"]
    /\ cancelled = [t \in StreamThreads |-> FALSE]
    /\ drain = [t \in StreamThreads |-> "none"]
    /\ recvCount = [t \in StreamThreads |-> 0]
    /\ sent = [t \in StreamThreads |-> 0]
    /\ acksInFlight = [t \in StreamThreads |-> 0]
    /\ cleanupPos = [t \in StreamThreads |-> 0]
    /\ cleanupLog = [t \in StreamThreads |-> <<>>]
    /\ fatal = FALSE
    /\ runCancelled = FALSE
    /\ users = [t \in StreamThreads |-> {}]
    /\ sendCalls = 0
    /\ dialBinding = "unary"
    /\ dialSt = [t \in StreamThreads |-> "off"]
    /\ dialElapsed = [t \in StreamThreads |-> 0]
    /\ backendUp = TRUE
    /\ uniqueKeys = <<>>
    /\ valueSizes = <<>>
    /\ loadIdx = 0
    /\ lpc = [t \in Threads |-> "off"]
    /\ lidx = [t \in Threads |-> 0]
    /\ inserted = <<>>
    /\ lines = <<>>
    /\ maxRecords = 0
    /\ fieldsPerRecord = 0
    /\ lineNum = 0
    /\ parsed = <<>>
    /\ accepted = <<>>
    /\ parseDone = TRUE
    /\ store = {}
    /\ readRet = <<>>
    /\ traceFile = ""
    /\ readModeProp = "read"
    /\ cpc = "off"
    /\ created = NotCreated

KeyNext ==
    \/ GenRandomKey
    \/ GenConstKey

SpecKey == KeyInit /\ [][KeyNext]_vars

\* =========================================================== raftDB.Read
\* getRowKey(table, key): "table:key"
getRowKey(table, key) == <<table, key>>

\* GetRequest{Key: proto.String(key)}: the key a Read asks the backend for
GetRequestKey(table, key) == <<key>>

BackendKeys == { GetRequestKey("t", "a"), getRowKey("t", "a") }

\* What the backend holds under a key: nothing, the JSON of a value map, or
\* text that is not such JSON.
Stored == {"none", "json", "garbage"}

\* client.Get(ctx, req): the call fails, or answers with found and value.
GetResponse(table, key, transportOk) ==
    IF ~transportOk
    THEN [failed |-> TRUE, found |-> FALSE, value |-> "none"]
    ELSE [failed |-> FALSE,
          found |-> store[GetRequestKey(table, key)] # "none",
          value |-> store[GetRequestKey(table, key)]]

\* Read, after the Get call: the transport error, the not-found error, or
\* the decoded map (with the decoder's error, if any).
ReadIgnoresFound(b, resp) ==
    CASE resp.failed -> [values |-> "nil", err |-> "transport"]
      [] resp.value # "json" ->
           [values |-> IF b = "streaming" THEN "undecoded" ELSE "nil", err |-> "decode"]
      [] OTHER -> [values |-> "map", err |-> "nil"]

Read(b, resp) ==
    CASE resp.failed -> [values |-> "nil", err |-> "transport"]
      [] ~resp.found -> [values |-> "nil", err |-> "notFound"]
      [] resp.value = "garbage" ->
           [values |-> IF b = "streaming" THEN "undecoded" ELSE "nil", err |-> "decode"]
      [] OTHER -> [values |-> "map", err |-> "nil"]

NoRead == [called |-> FALSE]

\* A thread calls Read on either binding.
ReadCall(t) ==
    /\ \E b \in Bindings, transportOk \in BOOLEAN :
         readRet' = [readRet EXCEPT ![t] =
            [called |-> TRUE, binding |-> b, resp |-> GetResponse("t", "a", transportOk)]
            @@ Read(b, GetResponse("t", "a", transportOk))]
    /\ UNCHANGED store
    /\ UNCHANGED <<traceVars, putVars, streamVars, dialVars, loadVars, parseVars, keyVars, createVars>>

\* PutRequest{Key: proto.String(rkey)} with rkey := getRowKey(table, key):
\* the key an Update writes, in either binding
PutRequestKey(table, key) == getRowKey(table, key)

\* Update(table, key, values) on either binding, applied by the backend: the
\* JSON of the value map is stored under the request's key.
UpdateApplied ==
    /\ store' = [store EXCEPT ![PutRequestKey("t", "a")] = "json"]
    /\ UNCHANGED readRet
    /\ UNCHANGED <<traceVars, putVars, streamVars, dialVars, loadVars, parseVars, keyVars, createVars>>

\* The backend stores something under a key.
BackendPut(k) ==
    /\ \E v \in Stored \ {"none"} : store' = [store EXCEPT ![k] = v]
    /\ store' # store
    /\ UNCHANGED readRet
    /\ UNCHANGED <<traceVars, putVars, streamVars, dialVars, loadVars, parseVars, keyVars, createVars>>

\* The backend drops a key.
BackendDrop(k) ==
    /\ store[k] # "none"
    /\ store' = [store EXCEPT ![k] = "none"]
    /\ UNCHANGED readRet
    /\ UNCHANGED <<traceVars, putVars, streamVars, dialVars, loadVars, parseVars, keyVars, createVars>>

ReadInit ==
    /\ store \in [BackendKeys -> Stored]
    /\ readRet = [t \in Threads |-> NoRead]
    /\ records = <<>>
    /\ loopReplay = FALSE
    /\ readMode = "read"
    /\ writeValueSize = TraceWriteValueSizeDefault
    /\ recordIdx = 0
    /\ tpc = [t \in Threads |-> "idle"]
    /\ tidx = [t \in Threads |-> 0]
    /\ claims = <<>>
    /\ replayed = <<>>
    /\ lastRet = [t \in Threads |-> NoRet]
    /\ parallel = 0
    /\ totalOps = 0
    /\ ppc = "off"
    /\ nCreated = 0
    /\ conn = <<>>
    /\ closeCnt = <<>>
    /\ reqCh = <<>>
    /\ chClosed = FALSE
    /\ enqueued = 0
    /\ wpc = <<>>
    /\ itemSt = <<>>
    /\ itemW = <<>>
    /\ sendCnt = <<>>
    /\ spc = [t \in StreamThreads |-> "off"]
    /\ sconn = [t \in StreamThreads |-> "none"]
    /\ sstream = [t \in StreamThreads |-> "none"]
    /\ cancelled = [t \in StreamThreads |-> FALSE]
    /\ drain = [t \in StreamThreads |-> "none"]
    /\ recvCount = [t \in StreamThreads |-> 0]
    /\ sent = [t \in StreamThreads |-> 0]
    /\ acksInFlight = [t \in StreamThreads |-> 0]
    /\ cleanupPos = [t \in StreamThreads |-> 0]
    /\ cleanupLog = [t \in StreamThreads |-> <<>>]
    /\ fatal = FALSE
    /\ runCancelled = FALSE
    /\ users = [t \in StreamThreads |-> {}]
    /\ sendCalls = 0
    /\ dialBinding = "unary"
    /\ dialSt = [t \in StreamThreads |-> "off"]
    /\ dialElapsed = [t \in StreamThreads |-> 0]
    /\ backendUp = TRUE
    /\ uniqueKeys = <<>>
    /\ valueSizes = <<>>
    /\ loadIdx = 0
    /\ lpc = [t \in Threads |-> "off"]
    /\ lidx = [t \in Threads |-> 0]
    /\ inserted = <<>>
    /\ lines = <<>>
    /\ maxRecords = 0
    /\ fieldsPerRecord = 0
    /\ lineNum = 0
    /\ parsed = <<>>
    /\ accepted = <<>>
    /\ parseDone = TRUE
    /\ keySpace = 0
    /\ keySize = 0
    /\ keyBuf = <<>>
    /\ itemKeys = <<>>
    /\ ids = <<>>
    /\ traceFile = ""
    /\ readModeProp = "read"
    /\ cpc = "off"
    /\ created = NotCreated

ReadNext ==
    \/ \E t \in Threads : ReadCall(t)
    \/ UpdateApplied
    \/ \E k \in BackendKeys :
        \/ BackendPut(k)
        \/ BackendDrop(k)

SpecRead == ReadInit /\ [][ReadNext]_vars

\* The streaming binding against a partitioned backend: it accepts
\* connections and streams, but never acknowledges a request and never closes
\* a stream, so no drain loop ever receives anything.
PartitionedNext ==
    \/ RunCancel
    \/ \E t \in StreamThreads :
        \/ InitDialOk(t)
        \/ InitDialFail(t)
        \/ InitStreamOk(t)
        \/ InitStreamFail(t)
        \/ StreamSend(t)
        \/ DrainExit(t)
        \/ CleanupStep(t)

\* Fair scheduling of the binding's own code: a thread inside CleanupThread
\* takes its next statement when it can, and a drain loop whose receive has
\* failed returns.
SpecStreamPartitioned ==
    /\ StreamInit
    /\ [][PartitionedNext]_vars
    /\ \A t \in StreamThreads :
         /\ WF_vars(spc[t] = "cleanup" /\ CleanupStep(t))
         /\ WF_vars(DrainExit(t))

\* runPut under fair scheduling of its own goroutines: the producer and the
\* worker loops take their next step when they can.  Nothing is assumed of
\* the backend or of the goroutines that call db.Update.
SpecPutFair ==
    /\ PutInit
    /\ [][PutNext]_vars
    /\ WF_vars(Enqueue)
    /\ WF_vars(CloseCh)
    /\ WF_vars(WaitDone)
    /\ \A w \in 1..MaxParallel :
         /\ WF_vars(w \in Clients /\ Receive(w))
         /\ WF_vars(w \in Clients /\ WorkerExit(w))

\* ================================================ traceWorkloadCreator.Create
\* Values of the trace.file property: unset, a file that cannot be opened,
\* a readable trace file.
TraceFiles == {"", "missing.csv", "trace.csv"}

\* Values of the trace.readmode property (unset reads as the default "read").
ReadModeProps == {"read", "skip", "write", "READ", "Write", "fast"}

\* strings.ToLower on these values
ToLower(str) ==
    CASE str = "READ" -> "read"
      [] str = "Write" -> "write"
      [] OTHER -> str

\* A Create that accepts an empty trace.
NoRecordsNever(recs) == FALSE

\* len(records) == 0
NoRecords(recs) == Len(recs) = 0

\* readMode != "read" && readMode != "skip" && readMode != "write"
InvalidReadMode(mode) == mode \notin ReadModes

\* return nil, fmt.Errorf(...)
Failed(e) == [err |-> e, w |-> <<>>]

\* w := &traceWorkload{..., readMode: readMode, records: records,
\*                     numRecords: int64(len(records)), ...}; return w, nil
Workload(recs, mode) ==
    [err |-> "nil",
     w |-> << [records |-> recs, numRecords |-> Len(recs), readMode |-> mode] >>]

\* traceFile == "": the property is required
CreateNoFile ==
    /\ cpc = "start"
    /\ traceFile = ""
    /\ created' = Failed("noFile")
    /\ cpc' = "done"
    /\ UNCHANGED <<traceFile, readModeProp>>
    /\ UNCHANGED parseVars
    /\ UNCHANGED <<traceVars, putVars, streamVars, dialVars, loadVars, keyVars, readVars>>

\* parseTraceFile: os.Open fails; Create wraps and returns the error
CreateOpenFails ==
    /\ cpc = "start"
    /\ traceFile = "missing.csv"
    /\ created' = Failed("parse")
    /\ cpc' = "done"
    /\ UNCHANGED <<traceFile, readModeProp>>
    /\ UNCHANGED parseVars
    /\ UNCHANGED <<traceVars, putVars, streamVars, dialVars, loadVars, keyVars, readVars>>

\* parseTraceFile(traceFile, maxRecords) opens the file and starts reading
CreateStartParse ==
    /\ cpc = "start"
    /\ traceFile = "trace.csv"
    /\ parseDone' = FALSE
    /\ cpc' = "parsing"
    /\ UNCHANGED <<traceFile, readModeProp, created>>
    /\ UNCHANGED <<lines, maxRecords, fieldsPerRecord, lineNum, parsed, accepted>>
    /\ UNCHANGED <<traceVars, putVars, streamVars, dialVars, loadVars, keyVars, readVars>>

\* parseTraceFile returned no record
CreateNoRecords ==
    /\ cpc = "parsing"
    /\ parseDone
    /\ NoRecords(parsed)
    /\ created' = Failed("noRecords")
    /\ cpc' = "done"
    /\ UNCHANGED <<traceFile, readModeProp>>
    /\ UNCHANGED parseVars
    /\ UNCHANGED <<traceVars, putVars, streamVars, dialVars, loadVars, keyVars, readVars>>

\* the lower-cased trace.readmode is not a read mode
CreateBadMode ==
    /\ cpc = "parsing"
    /\ parseDone
    /\ ~NoRecords(parsed)
    /\ InvalidReadMode(ToLower(readModeProp))
    /\ created' = Failed("badMode")
    /\ cpc' = "done"
    /\ UNCHANGED <<traceFile, readModeProp>>
    /\ UNCHANGED parseVars
    /\ UNCHANGED <<traceVars, putVars, streamVars, dialVars, loadVars, keyVars, readVars>>

\* every check passed: the workload is built and returned
CreateWorkload ==
    /\ cpc = "parsing"
    /\ parseDone
    /\ ~NoRecords(parsed)
    /\ ~InvalidReadMode(ToLower(readModeProp))
    /\ created' = Workload(parsed, ToLower(readModeProp))
    /\ cpc' = "done"
    /\ UNCHANGED <<traceFile, readModeProp>>
    /\ UNCHANGED parseVars
    /\ UNCHANGED <<traceVars, putVars, streamVars, dialVars, loadVars, keyVars, readVars>>

\* The state at the call of Create: the properties and the file are given,
\* parseTraceFile has not been called.
CreateInit ==
    /\ traceFile \in TraceFiles
    /\ readModeProp \in ReadModeProps
    /\ cpc = "start"
    /\ created = NotCreated
    /\ lines \in FileInputs
    /\ maxRecords \in 0..MaxLines
    /\ fieldsPerRecord = 0
    /\ lineNum = 0
    /\ parsed = <<>>
    /\ accepted = <<>>
    /\ parseDone = TRUE
    /\ records = <<>>
    /\ loopReplay = FALSE
    /\ readMode = "read"
    /\ writeValueSize = TraceWriteValueSizeDefault
    /\ recordIdx = 0
    /\ tpc = [t \in Threads |-> "idle"]
    /\ tidx = [t \in Threads |-> 0]
    /\ claims = <<>>
    /\ replayed = <<>>
    /\ lastRet = [t \in Threads |-> NoRet]
    /\ parallel = 0
    /\ totalOps = 0
    /\ ppc = "off"
    /\ nCreated = 0
    /\ conn = <<>>
    /\ closeCnt = <<>>
    /\ reqCh = <<>>
    /\ chClosed = FALSE
    /\ enqueued = 0
    /\ wpc = <<>>
    /\ itemSt = <<>>
    /\ itemW = <<>>
    /\ sendCnt = <<>>
    /\ spc = [t \in StreamThreads |-> "off"]
    /\ sconn = [t \in StreamThreads |-> "none"]
    /\ sstream = [t \in StreamThreads |-> "none"]
    /\ cancelled = [t \in StreamThreads |-> FALSE]
    /\ drain = [t \in StreamThreads |-> "none"]
    /\ recvCount = [t \in StreamThreads |-> 0]
    /\ sent = [t \in StreamThreads |-> 0]
    /\ acksInFlight = [t \in StreamThreads |-> 0]
    /\ cleanupPos = [t \in StreamThreads |-> 0]
    /\ cleanupLog = [t \in StreamThreads |-> <<>>]
    /\ fatal = FALSE
    /\ runCancelled = FALSE
    /\ users = [t \in StreamThreads |-> {}]
    /\ sendCalls = 0
    /\ dialBinding = "unary"
    /\ dialSt = [t \in StreamThreads |-> "off"]
    /\ dialElapsed = [t \in StreamThreads |-> 0]
    /\ backendUp = TRUE
    /\ uniqueKeys = <<>>
    /\ valueSizes = <<>>
    /\ loadIdx = 0
    /\ lpc = [t \in Threads |-> "off"]
    /\ lidx = [t \in Threads |-> 0]
    /\ inserted = <<>>
    /\ keySpace = 0
    /\ keySize = 0
    /\ keyBuf = <<>>
    /\ itemKeys = <<>>
    /\ ids = <<>>
    /\ store = {}
    /\ readRet = <<>>

CreateNext ==
    \/ CreateNoFile
    \/ CreateOpenFails
    \/ CreateStartParse
    \/ ParseBreakAtCap
    \/ ParseEOF
    \/ ParseSkipError
    \/ ParseSkipShort
    \/ ParseAppend
    \/ CreateNoRecords
    \/ CreateBadMode
    \/ CreateWorkload

SpecCreate == CreateInit /\ [][CreateNext]_vars

\* ======================================================= trace: claims
Range(f) == { f[i] : i \in DOMAIN f }

NoDuplicates(f) == \A i, j \in DOMAIN f : i # j => f[i] # f[j]

AllIdle == \A t \in Threads : tpc[t] = "idle"

\* C1: with loop-replay disabled, under any interleaving of the threads'
\* DoTransaction calls, no index is claimed twice and no record is replayed
\* twice; once exactly numRecords claims have been made the claimed indices
\* are exactly 0..numRecords-1, and once those calls have finished every
\* record has been replayed.
C1_ClaimsArePermutation ==
    ~loopReplay =>
        /\ NoDuplicates(claims)
        /\ NoDuplicates(replayed)
        /\ Len(claims) = numRecords => Range(claims) = 0..(numRecords - 1)
        /\ (Len(claims) >= numRecords /\ AllIdle) => Range(replayed) = 0..(numRecords - 1)

C1_Witness ==
    /\ ~loopReplay
    /\ numRecords = 2
    /\ Len(claims) = 2
    /\ tpc[1] = "idle" /\ tpc[2] = "idle"
    /\ lastRet[1].idx = 1 /\ lastRet[2].idx = 0

\* C5: with loop-replay enabled and several threads claiming, the claims of
\* one pass (numRecords consecutive claims, in claim order) replay pairwise
\* different records.
C5_OncePerPass ==
    loopReplay =>
        \A i, j \in DOMAIN claims :
            (i < j /\ (i - 1) \div numRecords = (j - 1) \div numRecords)
                => WrappedIdx(claims[i]) # WrappedIdx(claims[j])

\* C6 as stated: the cursor never exceeds numRecords.
C6_CursorAtMostNumRecords == recordIdx <= numRecords

\* C6 amended: the cursor is never negative; with loop-replay disabled it
\* equals the number of claims made so far (so it passes numRecords with
\* the first claim past the end); with loop-replay enabled it exceeds
\* numRecords by at most the number of threads that claimed past the end
\* and have not yet stored the wrap.
C6_CursorBound ==
    /\ recordIdx >= 0
    /\ ~loopReplay => recordIdx = Len(claims)
    /\ loopReplay =>
          recordIdx <= numRecords
              + Cardinality({ t \in Threads : tpc[t] = "claimed" /\ tidx[t] >= numRecords })

C6_Witness == ~loopReplay /\ AllIdle /\ recordIdx > numRecords

\* C7: with loop-replay disabled, a call that claimed an index at or past
\* the end of the records issued no database call and returned nil, for
\* the first such call and for every later one; no index past the end is
\* ever used to read the records.
C7_ExhaustedIsNoOp ==
    ~loopReplay =>
        /\ \A t \in Threads :
              lastRet[t].idx >= numRecords
                  => lastRet[t].calls = <<>> /\ lastRet[t].err = "nil"
        /\ \A i \in DOMAIN replayed : replayed[i] < numRecords

C7_Witness ==
    /\ ~loopReplay
    /\ \E t \in Threads : tpc[t] = "idle" /\ lastRet[t].idx > numRecords

\* C8: with loop-replay enabled, the k-th claim of the second pass replays
\* the same record as the k-th claim of the first pass.
C8_SecondPassSameOrder ==
    loopReplay =>
        \A k \in 1..numRecords :
            numRecords + k <= Len(claims)
                => WrappedIdx(claims[numRecords + k]) = WrappedIdx(claims[k])

\* ====================================================== runPut: claims
\* C2: no work item is sent more than once, and when runPut has passed its
\* completion wait (it is at, or after, the report) every one of the
\* totalOps items has been sent exactly once.
C2_AllSentAtReport ==
    /\ \A i \in Items : sendCnt[i] <= 1
    /\ ppc \in {"report", "closing", "returned"} => \A i \in Items : sendCnt[i] = 1

\* C3: when the run has ended, on the normal path (return) or on the setup
\* failure path (os.Exit), every connection that was opened has been closed
\* exactly once; no connection is ever closed twice.
C3_EveryConnClosedOnce ==
    /\ \A i \in Clients : closeCnt[i] <= 1
    /\ ppc \in {"returned", "exited"} =>
          \A i \in Clients : conn[i] # "none" => conn[i] = "closed" /\ closeCnt[i] = 1

\* C9: the producer never enqueues more than totalOps items; the queue is
\* closed only when all totalOps items have been enqueued, and nothing is
\* enqueued after that; a worker has left its receive loop only if the queue
\* is closed and empty and every item has been taken by some worker.
C9_ProducerAndWorkers ==
    /\ enqueued <= totalOps
    /\ Cardinality({ i \in Items : itemSt[i] # "new" }) = enqueued
    /\ chClosed => enqueued = totalOps
    /\ \A w \in Clients :
          wpc[w] = "done" =>
              /\ chClosed
              /\ reqCh = <<>>
              /\ \A i \in Items : itemSt[i] \notin {"new", "queued"} /\ itemW[i] \in Clients

C9_Witness ==
    /\ totalOps = 3
    /\ parallel = 2
    /\ \E w \in Clients : wpc[w] = "done"
    /\ \E w \in Clients : wpc[w] = "loop"
    /\ \E i, j \in Items : itemW[i] = 1 /\ itemW[j] = 2

\* The producer is at its send statement and cannot proceed.
ProducerBlocked == ppc = "produce" /\ enqueued < totalOps /\ ~ENABLED Enqueue

\* C10: the queue never holds more than parallel items, and the producer is
\* blocked at its send only when the queue holds exactly parallel items,
\* whatever requests are outstanding at the backend.
C10_BoundedQueueBackpressure ==
    /\ Len(reqCh) <= parallel
    /\ ProducerBlocked => Len(reqCh) = parallel

C10_Witness ==
    /\ ProducerBlocked
    /\ Len(reqCh) = parallel
    /\ \E i \in Items : itemSt[i] = "inflight"

\* C11: the number of live send tasks (goroutines started for a work item
\* that have not finished their db.Update) never exceeds the number of
\* workers, however many items are queued and however slow the backend is.
C11_SendTasksBoundedByPool ==
    Cardinality({ i \in Items : itemSt[i] \in {"spawned", "inflight"} }) <= parallel

IsPrefix(s, u) == Len(s) <= Len(u) /\ \A i \in DOMAIN s : s[i] = u[i]

\* C4: CleanupThread executes half-close, cancel, wait for the drain loop,
\* close the connection, in this order; the context is cancelled only after
\* the half-close, and the connection is never closed while the drain loop
\* is still running.
C4_CleanupOrder ==
    \A t \in StreamThreads :
        /\ IsPrefix(cleanupLog[t], <<"CloseSend", "cancel", "Wait", "Close">>)
        /\ spc[t] = "cleaned" => Len(cleanupLog[t]) = 4
        /\ cancelled[t] => sstream[t] # "open"
        /\ sconn[t] = "closed" => drain[t] # "running"

C4_Witness ==
    \E t \in StreamThreads :
        /\ spc[t] = "cleaned"
        /\ sconn[t] = "closed"
        /\ drain[t] = "done"
        /\ recvCount[t] < sent[t]

C13_NoSendIfSetupFailed == fatal => \A t \in StreamThreads : sent[t] = 0

\* C13: when the dial or the stream open of a worker fails the process is
\* ended at once: from then on no worker sends a request or takes any other
\* step, and the worker whose setup failed has never sent one.
C13_AbortStopsRun ==
    /\ [](\A t \in StreamThreads : spc[t] \in {"new", "dialed"} => sent[t] = 0)
    /\ [][fatal => (sent' = sent /\ spc' = spc /\ sstream' = sstream /\ recvCount' = recvCount)]_vars

\* The setup of one worker failed after another worker had sent a request.
C13_Witness ==
    /\ fatal
    /\ \E t, u \in StreamThreads :
         /\ sent[t] > 0
         /\ spc[u] \in {"new", "dialed"}
         /\ sent[u] = 0

\* C15: each worker has its own connection and its own stream from the end
\* of InitThread until CleanupThread closes them, and every send on a stream
\* was made by the worker that opened it.
C15_OwnConnAndStream ==
    \A t \in StreamThreads :
        /\ users[t] \subseteq {t}
        /\ spc[t] = "new" => sconn[t] = "none" /\ sstream[t] = "none"
        /\ spc[t] = "running" => sconn[t] = "open" /\ sstream[t] # "none"
        /\ sent[t] > 0 => sstream[t] # "none"

\* Both workers have sent on their streams.
C15_Witness ==
    /\ NumStreamThreads >= 2
    /\ users[1] = {1}
    /\ users[2] = {2}

RECURSIVE TotalRecv(_)
TotalRecv(n) == IF n = 0 THEN 0 ELSE recvCount[n] + TotalRecv(n - 1)

\* C16: with a backend that answers each request at most once, every
\* worker's acknowledgement counter, and the sum of the counters, is at most
\* the number of requests sent so far, and so at most the number of requests
\* of the whole run.
C16_AcksAtMostSent ==
    /\ \A t \in StreamThreads : recvCount[t] + acksInFlight[t] <= sent[t]
    /\ TotalRecv(NumStreamThreads) <= TotalSent(NumStreamThreads)
    /\ TotalRecv(NumStreamThreads) <= MaxSends

\* Every request of the run was sent and acknowledged, and the drain
\* goroutines have returned.
C16_Witness ==
    /\ TotalSent(NumStreamThreads) = MaxSends
    /\ TotalRecv(NumStreamThreads) = MaxSends
    /\ \A t \in StreamThreads : drain[t] = "done"

\* C30: a worker's ack counter changes only by the drain loop counting one
\* received response, one at a time; once the drain loop has ended on its
\* first receive error the counter never changes again, so it stays the
\* number of successful receives.
C30_CounterCountsReceives ==
    [][\A t \in StreamThreads :
          /\ recvCount'[t] # recvCount[t] =>
                /\ recvCount'[t] = recvCount[t] + 1
                /\ acksInFlight'[t] = acksInFlight[t] - 1
                /\ drain[t] = "running"
                /\ drain'[t] = "running"
          /\ drain[t] = "done" => (drain'[t] = "done" /\ recvCount'[t] = recvCount[t])]_vars

\* The drain loop ended after counting a response, with another response
\* never received.
C30_Witness ==
    \E t \in StreamThreads :
        drain[t] = "done" /\ recvCount[t] = 1 /\ acksInFlight[t] = 1

\* ====================================================== load phase: claims
\* The largest valueSize recorded for key k anywhere in the trace.
MaxSizeOf(k) ==
    CHOOSE m \in { records[i].valueSize : i \in { j \in DOMAIN records : records[j].key = k } } :
        \A i \in DOMAIN records : records[i].key = k => records[i].valueSize <= m

\* C21: under any interleaving of DoInsert calls no key is inserted twice,
\* every insert is of a key of the trace with a value as long as the largest
\* valueSize recorded for that key (100 if that is not positive), calls
\* beyond numUniqueKeys insert nothing, and once numUniqueKeys calls have been
\* made and have finished every key of the trace has been inserted.
C21_EveryKeyInsertedOnce ==
    /\ \A i, j \in DOMAIN inserted : i # j => inserted[i].key # inserted[j].key
    /\ \A i \in DOMAIN inserted :
         /\ inserted[i].op = "Insert"
         /\ inserted[i].key \in KeysOf(records)
         /\ inserted[i].len = IF MaxSizeOf(inserted[i].key) > 0
                              THEN MaxSizeOf(inserted[i].key) ELSE 100
    /\ Len(inserted) <= Cardinality(KeysOf(records))
    /\ (loadIdx >= Cardinality(KeysOf(records)) /\ \A t \in Threads : lpc[t] = "idle") =>
          { inserted[i].key : i \in DOMAIN inserted } = KeysOf(records)

\* A key recorded with sizes 2 and then 1 was inserted with 2 bytes, and a
\* further call inserted nothing.
C21_Witness ==
    /\ Len(records) = 2
    /\ records[1].key = "a" /\ records[1].valueSize = 2
    /\ records[2].key = "a" /\ records[2].valueSize = 1
    /\ \A t \in Threads : lpc[t] = "idle"
    /\ loadIdx = 2
    /\ inserted = <<DbCall("Insert", "a", 2)>>

\* ================================================== parseTraceFile: claims
\* A line with 7 fields whose numeric fields are numbers.
WellFormed(i) == lines[i].nf = 7 /\ Atoi(lines[i].valueSize).ok

\* C22: with no cap, a line with fewer than 7 fields is not loaded and a
\* well-formed line right after it is, wherever the short line stands in
\* the file.
C22_ShortLineSkippedNextLoaded ==
    (parseDone /\ maxRecords = 0) =>
        \A i \in DOMAIN lines :
            lines[i].nf < 7 =>
                /\ i \notin Range(accepted)
                /\ (i + 1 \in DOMAIN lines /\ WellFormed(i + 1)) => i + 1 \in Range(accepted)

\* C23: a line whose numeric field is not a number is not among the loaded
\* records.
C23_UnparsableLineSkipped ==
    \A i \in Range(accepted) : Atoi(lines[i].valueSize).ok

\* C24: with a positive cap no more than cap records are loaded and no line
\* is read after the cap was reached; with cap 0 every well-formed line is
\* loaded; the loaded records are in file order.
C24_CapAndOrder ==
    /\ maxRecords > 0 => Len(parsed) <= maxRecords
    /\ (maxRecords > 0 /\ Len(parsed) = maxRecords) => lineNum = accepted[Len(accepted)]
    /\ (parseDone /\ maxRecords = 0) =>
          \A i \in DOMAIN lines : WellFormed(i) => i \in Range(accepted)
    /\ \A i, j \in DOMAIN accepted : i < j => accepted[i] < accepted[j]
    /\ Len(parsed) = Len(accepted)

\* ================================================== key generation: claims
\* The big-endian value of a byte sequence.
RECURSIVE BeValue(_)
BeValue(b) ==
    IF b = <<>> THEN 0 ELSE BeValue(SubSeq(b, 1, Len(b) - 1)) * 256 + b[Len(b)]

\* C25: for keySpace <= 1 the key of every work item is keySize zero bytes,
\* and so all work items carry the same key.
C25_ConstKeyAllZero ==
    keySpace <= 1 =>
        /\ \A i \in DOMAIN itemKeys :
             /\ Len(itemKeys[i]) = keySize
             /\ \A j \in 1..keySize : itemKeys[i][j] = 0
        /\ \A i, j \in DOMAIN itemKeys : itemKeys[i] = itemKeys[j]

C25_Witness ==
    /\ keySpace = 1
    /\ keySize = 8
    /\ Len(itemKeys) = 2

\* C26: for keySpace > 1 and keySize >= 8 every generated key, the first as
\* the later ones, has keySize bytes, its last 8 bytes are the big-endian
\* encoding of the drawn id, which lies in [0, keySpace), and the bytes
\* before them are zero.
C26_PaddedKey ==
    (keySpace > 1 /\ keySize >= 8) =>
        \A i \in DOMAIN itemKeys :
            /\ Len(itemKeys[i]) = keySize
            /\ BeValue(SubSeq(itemKeys[i], keySize - 7, keySize)) = ids[i]
            /\ BeValue(SubSeq(itemKeys[i], keySize - 7, keySize)) \in 0..(keySpace - 1)
            /\ \A j \in 1..(keySize - 8) : itemKeys[i][j] = 0

\* A key for a small id was generated after one for a larger id.
C26_Witness ==
    /\ keySize = 9
    /\ Len(itemKeys) = 2
    /\ ids = <<65537, 1>>
    /\ itemKeys[2] = <<0, 0, 0, 0, 0, 0, 0, 0, 1>>

\* C27: for keySpace > 1 and keySize < 8 every generated key has keySize
\* bytes, the low-order keySize bytes of the big-endian encoding of the
\* drawn id.
C27_TruncatedKey ==
    (keySpace > 1 /\ keySize < 8) =>
        \A i \in DOMAIN itemKeys :
            /\ Len(itemKeys[i]) = keySize
            /\ \A j \in 1..keySize :
                 itemKeys[i][j] = Shr8(ids[i], keySize - j) % 256

\* With one byte per key, id 256 gave the key 0 and id 255 the key 255.
C27_Witness ==
    /\ keySize = 1
    /\ ids = <<256, 255>>
    /\ itemKeys = << <<0>>, <<255>> >>

\* ============================================================ Read: claims
\* C29: in either binding a Read whose Get call failed returns the transport
\* error, a Read that the backend answered with found = false returns the
\* not-found error, which is another error, and neither returns a value map.
C29_NotFoundAndTransportErrors ==
    \A t \in Threads :
        readRet[t].called =>
            /\ readRet[t].resp.failed =>
                  readRet[t].err = "transport" /\ readRet[t].values = "nil"
            /\ (~readRet[t].resp.failed /\ ~readRet[t].resp.found) =>
                  readRet[t].err = "notFound" /\ readRet[t].values = "nil"
            /\ readRet[t].err \in {"transport", "notFound"} =>
                  (readRet[t].resp.failed <=> readRet[t].err = "transport")

\* One thread's Read met a failing Get, another's a missing key.
C29_Witness ==
    /\ readRet[1].called /\ readRet[1].err = "transport"
    /\ readRet[2].called /\ readRet[2].err = "notFound" /\ readRet[2].binding = "streaming"

\* ================================================= trace: claims (index)
\* C35: in every interleaving, with loop-replay on or off, every index with
\* which a DoTransaction call reads w.records lies in 0..numRecords-1, so no
\* call panics on an out-of-range index.
C35_IndexInRange ==
    /\ \A i \in 1..Len(replayed) : replayed[i] \in 0..(numRecords - 1)
    /\ \A t \in Threads : lastRet[t].err # "panic"

\* Two calls claimed past the end at once and both wrapped to index 0.
C35_Witness ==
    /\ loopReplay
    /\ Len(replayed) >= numRecords
    /\ \A t \in Threads : tpc[t] = "wrapped" /\ tidx[t] = 0

\* ============================================ runPut: claims (send order)
\* C33: within one worker the requests are sent in the order in which the
\* worker dequeued the items.  Items enter the FIFO queue in index order, so
\* of two items taken by the same worker the lower index was dequeued first:
\* once the later one has been sent, the earlier one has been sent too.
C33_SendsInDequeueOrder ==
    \A x \in Items, y \in Items :
        (/\ x < y
         /\ itemW[x] # 0
         /\ itemW[x] = itemW[y]
         /\ itemSt[y] \in {"inflight", "done"})
        => itemSt[x] \in {"inflight", "done"}

\* C36: no db.Update is started on a client whose deferred Close has run:
\* when a client's connection is closed, every item its worker took has
\* already started (or completed) its Update.
C36_NoRequestOnClosedConn ==
    \A i \in Items :
        (itemW[i] # 0 /\ conn[itemW[i]] = "closed")
        => itemSt[i] \in {"inflight", "done"}

\* ========================================== key generation: claims (copy)
\* C34: for keySpace > 1 the key of a work item never changes once the item
\* has been built: producing later keys, which overwrites keyBuf, leaves
\* every earlier item's key as it was.
C34_EnqueuedKeyFrozen ==
    [][keySpace > 1 =>
         \A i \in DOMAIN itemKeys : i \in DOMAIN itemKeys' /\ itemKeys'[i] = itemKeys[i]]_vars

\* keyBuf has been overwritten since the first item was built: the buffer now
\* holds the second item's bytes, which differ from the first item's key.
C34_Witness ==
    /\ keySpace > 1
    /\ Len(itemKeys) >= 2
    /\ keyBuf = itemKeys[2]
    /\ keyBuf # itemKeys[1]

\* ===================================================== Read: claims (key)
\* C37: Update and Read address the same backend key: a Read of (table, key)
\* that the backend answers while it holds what Update(table, key, v) wrote
\* finds the value and returns it, in both bindings.
C37_ReadFindsUpdate ==
    [][\A t \in Threads :
         (/\ readRet'[t] # readRet[t]
          /\ store[PutRequestKey("t", "a")] = "json"
          /\ ~readRet'[t].resp.failed)
         => (readRet'[t].resp.found /\ readRet'[t].err = "nil")]_vars

\* ======================================= streaming: claims (isolation)
\* C32: the end of one worker's drain loop changes nothing of any other
\* worker: their streams, connections, contexts, drain loops, send and ack
\* counters stay as they were, and the run as a whole is neither aborted nor
\* cancelled by it.
C32_DrainExitIsLocal ==
    [][\A t \in StreamThreads :
         (drain[t] = "running" /\ drain'[t] = "done") =>
            /\ fatal' = fatal
            /\ runCancelled' = runCancelled
            /\ \A u \in StreamThreads \ {t} :
                 /\ spc'[u] = spc[u]
                 /\ sconn'[u] = sconn[u]
                 /\ sstream'[u] = sstream[u]
                 /\ cancelled'[u] = cancelled[u]
                 /\ drain'[u] = drain[u]
                 /\ recvCount'[u] = recvCount[u]
                 /\ sent'[u] = sent[u]
                 /\ acksInFlight'[u] = acksInFlight[u]]_vars

\* Worker 1's drain loop ended on a stream error while worker 1 was still
\* running; worker 2 is running on an open stream and has counted an ack.
C32_Witness ==
    /\ drain[1] = "done" /\ spc[1] = "running" /\ sstream[1] = "ended"
    /\ spc[2] = "running" /\ sstream[2] = "open" /\ drain[2] = "running"
    /\ recvCount[2] >= 1

\* ===================================== streaming: claims (failed send)
\* C31: a Send that fails (a Send call that adds no request to any stream)
\* only returns its error: the position of every worker, its stream handle,
\* connection, context and drain loop are as before, the run is not aborted,
\* and a running worker's next operation can again call Send.
C31_FailedSendLeavesWorker ==
    /\ [][(sendCalls' = sendCalls + 1 /\ sent' = sent) =>
            /\ spc' = spc
            /\ sconn' = sconn
            /\ sstream' = sstream
            /\ cancelled' = cancelled
            /\ drain' = drain
            /\ cleanupPos' = cleanupPos
            /\ fatal' = fatal]_vars
    /\ [](\A t \in StreamThreads :
            (~Aborted /\ spc[t] = "running" /\ sendCalls < MaxSends)
            => ENABLED StreamSend(t))

\* Only worker 1 has been set up; its stream ended, and it has called Send
\* twice since, both calls failing, and is still running on the same stream.
C31_Witness ==
    /\ spc[1] = "running" /\ spc[2] = "new"
    /\ sstream[1] = "ended" /\ sconn[1] = "open"
    /\ sent[1] = 0
    /\ sendCalls = 2

\* ===================================== streaming: claims (termination)
\* C38: a CleanupThread that has started ends with the connection closed,
\* whatever the backend does (unless log.Fatalf ends the process first): the
\* cancel lets the drain loop leave its receive, so the wait returns.
C38_CleanupTerminates ==
    \A t \in StreamThreads :
        (spc[t] = "cleanup") ~> (fatal \/ (spc[t] = "cleaned" /\ sconn[t] = "closed"))

\* Worker 1 sent a request that the backend never acknowledged, the backend
\* never closed the stream, and CleanupThread has returned.
C38_Witness ==
    /\ spc[1] = "cleaned" /\ sconn[1] = "closed" /\ drain[1] = "done"
    /\ sent[1] >= 1 /\ recvCount[1] = 0
    /\ sstream[1] = "halfclosed"
    /\ ~runCancelled

\* ========================================== runPut: claims (termination)
\* C39: once the clients are created and the workers started, runPut reaches
\* its final report whatever the backend does: by then every item has been
\* enqueued, the queue is closed and every worker has left its loop.
C39_ReachesReport ==
    (ppc = "produce") ~>
        (/\ ppc = "report"
         /\ enqueued = totalOps
         /\ chClosed
         /\ \A w \in Clients : wpc[w] = "done")

\* The report is reached with more items than queue slots and a backend
\* that has answered no request.
C39_Witness ==
    /\ ppc = "report"
    /\ parallel = 1
    /\ totalOps = MaxTotalOps
    /\ \A i \in Items : itemSt[i] \in {"spawned", "inflight"}
    /\ itemSt[1] = "inflight"

\* ==================================================== Create: claims
\* C40: Create returns an error and no workload when trace.file is unset,
\* when parsing gave no record, or when the (lower-cased) read mode is not
\* read, skip or write; every workload it returns has numRecords >= 1,
\* numRecords = len(records) and a read mode in {read, skip, write}.
C40_CreateChecks ==
    cpc = "done" =>
        /\ (\/ traceFile = ""
            \/ parsed = <<>>
            \/ ToLower(readModeProp) \notin {"read", "skip", "write"})
           => (created.err # "nil" /\ created.w = <<>>)
        /\ created.err # "nil" => created.w = <<>>
        /\ created.err = "nil" =>
              /\ Len(created.w) = 1
              /\ created.w[1].numRecords >= 1
              /\ created.w[1].numRecords = Len(created.w[1].records)
              /\ created.w[1].readMode \in {"read", "skip", "write"}

\* A trace file whose lines were all skipped: Create failed for want of
\* records, before it looked at the read mode.
C40_Witness ==
    /\ cpc = "done"
    /\ traceFile = "trace.csv"
    /\ Len(lines) = MaxLines
    /\ parsed = <<>>
    /\ created = Failed("noRecords")

====
